---- MODULE Spec2Model ----
(***************************************************************************)
(* Control plane: upload (ingestion) handler, its Redis metadata schema    *)
(* and lock, the local blob storage, and the gRPC stream manager           *)
(* (broadcast hub) with its subscriber sessions.                           *)
(*                                                                         *)
(* Redis is modelled as a typed key space (string / hash / zset values);   *)
(* keys are the token sequences the fmt.Sprintf formats produce.  The blob *)
(* store is a map from path to bytes.  Each upload handler runs            *)
(* HandleUpload as a sequence of steps, one per call to Redis or to the    *)
(* storage, so that concurrent requests interleave as goroutines do.       *)
(***************************************************************************)
EXTENDS Integers, Sequences, FiniteSets, TLC

\* ---------------------------------------------------------------- bounds
MaxTime == 1
MaxUploads == 2
MaxFaults == 2
QueueCap == 2
MaxBroadcasts == 3
MaxRegisters == 2
MaxDisturb == 1

\* the TTL of the upload lock, in seconds
LockTTL == 30
MaxClock == 2

\* ---------------------------------------------------------------- inputs
Handlers == {"h1", "h2"}
Names == {"w1"}
Versions == {"1.0.0", "2.0.0", "latest"}
FormNames == Names \cup {""}
FormVersions == Versions \cup {""}
Payloads == {<<1>>, <<2>>}

NoKey == [type |-> "none"]
NoFile == [exists |-> FALSE, data |-> <<>>]
NoResp == [status |-> 0, message |-> "", metadata |-> <<>>]

\* ------------------------------------------------------- pure functions
\* sha256.Sum256: a collision-free digest over the payloads of the model
RECURSIVE Sha256(_)
Sha256(data) ==
    IF data = <<>> THEN 7
    ELSE (Sha256(SubSeq(data, 1, Len(data) - 1)) * 31 + data[Len(data)] + 1) % 65536

\* hex.EncodeToString: the digest as a sequence of hexadecimal digits
RECURSIVE EncodeToString(_)
EncodeToString(n) ==
    IF n < 16 THEN <<n>> ELSE Append(EncodeToString(n \div 16), n % 16)

Checksum(data) == EncodeToString(Sha256(data))

\* LocalStorage.GetPath: filepath.Join(basePath, filename, version)
GetPath(filename, version) == <<"files", filename, version>>
Paths == {GetPath(n, v) : n \in Names, v \in Versions}

\* Redis keys, as the token sequences of the Sprintf formats
FileKey(filename, version) == <<"file", filename, version>>
VersionsKey(filename) == <<"file", filename, "versions">>
LatestKey(filename) == <<"file", filename, "latest">>
LockKey(filename, version) == <<"lock", "upload", filename, version>>

FileKeys == {FileKey(n, v) : n \in Names, v \in Versions}
LockKeys == {LockKey(n, v) : n \in Names, v \in Versions}
Keys == FileKeys \cup {VersionsKey(n) : n \in Names}
                 \cup {LatestKey(n) : n \in Names} \cup LockKeys

\* byte order of the version strings (Redis orders equal scores by member)
LexRank(v) == CASE v = "1.0.0" -> 1 [] v = "2.0.0" -> 2 [] v = "latest" -> 3 [] OTHER -> 0

VARIABLES
    rdb,        \* Redis key space: key -> NoKey or a typed value
    files,      \* blob storage: path -> bytes or NoFile
    now,        \* wall clock in seconds, as last read by time.Now()
    uploads,    \* number of requests accepted so far (bounds the run)
    pc,         \* per handler: position in HandleUpload
    req,        \* per handler: filename, version, fileData of the request
    loc,        \* per handler: locals of HandleUpload / processFileUpload
    resp,       \* per handler: the HTTP response written
    faults      \* number of store and storage calls that failed so far

uvars == <<rdb, files, now, uploads, faults, pc, req, loc, resp>>

\* ------------------------------------------- broadcast hub: inputs, state
Consumers == {"c1", "c2"}
ConsumerIds == Consumers \cup {""}
Sessions == {"s1", "s2"}
Broadcasters == {"b1"}
WorkerNames == {"w1", "w2"}
WorkerNameLists == {<<>>, <<"w1">>}
Chans == 1..MaxRegisters
EventIds == 1..MaxBroadcasts
EventVersions == {"1.0.0"}

WireVersions == {"1.0.0", "2.0.0"}
WirePayloads == {<<>>, <<1>>, <<2>>, <<1, 2, 1, 2, 1, 2, 1, 2, 1, 2, 1, 2>>}
NoUpdate == [id |-> 0, WorkerName |-> "", Version |-> ""]
NoSession == [pc |-> "idle", ConsumerId |-> "", WorkerNames |-> <<>>,
              updateChan |-> 0, update |-> NoUpdate, dequeued |-> <<>>,
              delivered |-> <<>>, err |-> "", cancelled |-> FALSE,
              ticker |-> FALSE]
NoBroadcast == [pc |-> "idle", update |-> NoUpdate, todo |-> {}, errors |-> <<>>,
                err |-> FALSE, status |-> 0, clientErr |-> FALSE]

VARIABLES
    streams,    \* StreamManager.streams: consumer ID -> channel (0: no entry)
    chans,      \* the channels made so far: buffered updates, closed flag
    made,       \* number of channels made by Register
    offered,    \* per channel: the updates Broadcast tried to send, in order
    drops,      \* per channel: the updates Broadcast dropped (buffer full)
    sess,       \* per session: position and locals of SubscribeWorkerUpdates
    bc,         \* per broadcaster: position and locals of Broadcast
    sent,       \* number of updates handed to Broadcast so far
    crash,      \* runtime panic raised by a channel operation, "" if none
    disturb     \* number of cancellations, transport errors and evictions so far

hvars == <<streams, chans, made, offered, drops, sess, bc, sent, crash, disturb>>

\* the broadcast request on its way from the upload service to the hub
VARIABLES
    wire        \* BroadcastUpdate call: position, submitted event, HTTP request, update

NoWire == [pc |-> "idle", event |-> <<>>, fileData |-> <<>>, request |-> <<>>,
           update |-> <<>>, status |-> 0, err |-> FALSE]

vars == <<uvars, hvars, wire>>

\* NewStreamManager: an empty registry
HubInit ==
    /\ streams = [c \in Consumers |-> 0]
    /\ chans = [ch \in Chans |-> [buf |-> <<>>, closed |-> FALSE]]
    /\ made = 0
    /\ offered = [ch \in Chans |-> <<>>]
    /\ drops = [ch \in Chans |-> {}]
    /\ sess = [s \in Sessions |-> NoSession]
    /\ bc = [b \in Broadcasters |-> NoBroadcast]
    /\ sent = 0
    /\ crash = ""
    /\ disturb = 0

NoLoc == [checksum |-> <<>>, filePath |-> <<>>, writeErr |-> FALSE,
          sumDone |-> FALSE, writeDone |-> FALSE, metadata |-> <<>>,
          held |-> FALSE]
NoReq == [filename |-> "", version |-> "", fileData |-> <<>>]

\* positions at which the handler is past a successful AcquireLock and
\* before its deferred ReleaseLock has run
Critical == {"process", "verify", "verifyDelete", "build", "store",
             "rollback", "respond", "release"}

InFlight(p) == pc[p] \in Critical
SameKey(p, q) == req[p].filename = req[q].filename /\ req[p].version = req[q].version

Init ==
    /\ rdb = [k \in Keys |-> NoKey]
    /\ files = [f \in Paths |-> NoFile]
    /\ now = 0
    /\ uploads = 0
    /\ pc = [p \in Handlers |-> "idle"]
    /\ req = [p \in Handlers |-> NoReq]
    /\ loc = [p \in Handlers |-> NoLoc]
    /\ resp = [p \in Handlers |-> NoResp]
    /\ faults = 0
    /\ HubInit
    /\ wire = NoWire

\* ---------------------------------------------------------- Redis commands
\* Every command returns the new key space and whether it failed (WRONGTYPE).
IsType(db, key, t) == db[key].type = "none" \/ db[key].type = t

\* SET key value NX without expiry: the key stays until it is deleted
SetNX_NoExpiry(db, key, value, ttl) ==
    IF db[key].type = "none"
    THEN [db |-> [db EXCEPT ![key] = [type |-> "string", val |-> value, ttl |-> 0]],
          val |-> TRUE]
    ELSE [db |-> db, val |-> FALSE]

\* SET key value NX EX ttl: the key is set only if absent, and expires
\* ttl seconds later (ttl 0: never)
SetNX(db, key, value, ttl) ==
    IF db[key].type = "none"
    THEN [db |-> [db EXCEPT ![key] = [type |-> "string", val |-> value, ttl |-> ttl]],
          val |-> TRUE]
    ELSE [db |-> db, val |-> FALSE]

\* DEL key
Del(db, key) == [db EXCEPT ![key] = NoKey]

\* HSET key field value [field value ...]
HSet(db, key, fields) ==
    IF IsType(db, key, "hash")
    THEN LET old == IF db[key].type = "hash" THEN db[key].fields ELSE <<>>
             merged == [f \in DOMAIN old \cup DOMAIN fields |->
                           IF f \in DOMAIN fields THEN fields[f] ELSE old[f]]
         IN  [db |-> [db EXCEPT ![key] = [type |-> "hash", fields |-> merged]],
              err |-> FALSE]
    ELSE [db |-> db, err |-> TRUE]

\* ZADD key score member
ZAdd(db, key, score, member) ==
    IF IsType(db, key, "zset")
    THEN LET old == IF db[key].type = "zset" THEN db[key].members ELSE {}
             kept == {z \in old : z.member # member}
         IN  [db |-> [db EXCEPT ![key] =
                        [type |-> "zset",
                         members |-> kept \cup {[member |-> member, score |-> score]}]],
              err |-> FALSE]
    ELSE [db |-> db, err |-> TRUE]

\* SET key value (replaces a value of any type)
Set(db, key, value) == [db EXCEPT ![key] = [type |-> "string", val |-> value]]

\* GET key
Get(db, key) ==
    CASE db[key].type = "none" -> [nil |-> TRUE, err |-> FALSE, val |-> ""]
      [] db[key].type = "string" -> [nil |-> FALSE, err |-> FALSE, val |-> db[key].val]
      [] OTHER -> [nil |-> FALSE, err |-> TRUE, val |-> ""]

\* HGETALL key (a missing key reads as the empty map)
HGetAll(db, key) ==
    CASE db[key].type = "none" -> [err |-> FALSE, empty |-> TRUE, val |-> <<>>]
      [] db[key].type = "hash" -> [err |-> FALSE, empty |-> FALSE, val |-> db[key].fields]
      [] OTHER -> [err |-> TRUE, empty |-> TRUE, val |-> <<>>]

\* order of a sorted set, highest first: by score, equal scores by member
ZBefore(a, b) ==
    \/ a.score > b.score
    \/ a.score = b.score /\ LexRank(a.member) > LexRank(b.member)

RECURSIVE ZRevOrder(_)
ZRevOrder(members) ==
    IF members = {} THEN <<>>
    ELSE LET top == CHOOSE a \in members : \A b \in members \ {a} : ZBefore(a, b)
         IN  <<top.member>> \o ZRevOrder(members \ {top})

\* ZREVRANGE key 0 -1
ZRevRange(db, key) ==
    CASE db[key].type = "none" -> [err |-> FALSE, val |-> <<>>]
      [] db[key].type = "zset" -> [err |-> FALSE, val |-> ZRevOrder(db[key].members)]
      [] OTHER -> [err |-> TRUE, val |-> <<>>]

\* ------------------------------------------------------ redis/schema.go
\* the fields HSet writes; "metadata" is the JSON of the whole struct
HashFields(metadata) ==
    [checksum |-> metadata.Checksum,
     version |-> metadata.Version,
     filepath |-> metadata.FilePath,
     uploaded_at |-> metadata.UploadedAt,
     size |-> metadata.Size,
     metadata |-> metadata]

\* StoreFileMetadata moving the latest pointer only for the newest timestamp
StoreFileMetadata_LatestByTimestamp(db, metadata) ==
    LET fileKey == FileKey(metadata.Filename, metadata.Version)
        versionsKey == VersionsKey(metadata.Filename)
        latestKey == LatestKey(metadata.Filename)
        r1 == HSet(db, fileKey, HashFields(metadata))
        r2 == ZAdd(r1.db, versionsKey, metadata.UploadedAt, metadata.Version)
        newer == /\ r2.db[versionsKey].type = "zset"
                 /\ \E z \in r2.db[versionsKey].members : z.score > metadata.UploadedAt
        db3 == IF newer THEN r2.db ELSE Set(r2.db, latestKey, metadata.Version)
    IN  [db |-> db3, err |-> r1.err \/ r2.err]

\* StoreFileMetadata rebuilding the index: DEL of the versions key before ZADD
StoreFileMetadata_ReplaceIndex(db, metadata) ==
    LET fileKey == FileKey(metadata.Filename, metadata.Version)
        versionsKey == VersionsKey(metadata.Filename)
        latestKey == LatestKey(metadata.Filename)
        r1 == HSet(db, fileKey, HashFields(metadata))
        r2 == ZAdd(Del(r1.db, versionsKey), versionsKey, metadata.UploadedAt, metadata.Version)
        db3 == Set(r2.db, latestKey, metadata.Version)
    IN  [db |-> db3, err |-> r1.err \/ r2.err]

\* StoreFileMetadata: MULTI; HSET; ZADD; SET; EXEC.  The queued commands
\* run in order without interleaving; a command that fails does not undo
\* or stop the others, and Exec reports the first failure.
StoreFileMetadata(db, metadata) ==
    LET fileKey == FileKey(metadata.Filename, metadata.Version)
        versionsKey == VersionsKey(metadata.Filename)
        latestKey == LatestKey(metadata.Filename)
        r1 == HSet(db, fileKey, HashFields(metadata))
        r2 == ZAdd(r1.db, versionsKey, metadata.UploadedAt, metadata.Version)
        db3 == Set(r2.db, latestKey, metadata.Version)
    IN  [db |-> db3, err |-> r1.err \/ r2.err]

\* GetFileMetadata
GetFileMetadata(db, filename, version) ==
    LET result == HGetAll(db, FileKey(filename, version))
    IN  CASE result.err -> [err |-> "failed to get metadata", metadata |-> <<>>]
          [] result.empty -> [err |-> "file not found", metadata |-> <<>>]
          [] OTHER -> [err |-> "", metadata |-> result.val.metadata]

\* GetLatestVersion, with its fallback to the newest member of the index
GetLatestVersion(db, filename) ==
    LET got == Get(db, LatestKey(filename))
        versions == ZRevRange(db, VersionsKey(filename))
    IN  CASE got.nil ->
               IF versions.err \/ Len(versions.val) = 0
               THEN [err |-> "no versions found for file", version |-> ""]
               ELSE [err |-> "", version |-> versions.val[1]]
          [] got.err -> [err |-> "failed to get latest version", version |-> ""]
          [] OTHER -> [err |-> "", version |-> got.val]

\* GetLatestFileMetadata
GetLatestFileMetadata(db, filename) ==
    LET latest == GetLatestVersion(db, filename)
    IN  IF latest.err # "" THEN [err |-> latest.err, metadata |-> <<>>]
        ELSE GetFileMetadata(db, filename, latest.version)

\* GetAllVersions
GetAllVersions(db, filename) ==
    LET versions == ZRevRange(db, VersionsKey(filename))
    IN  IF versions.err THEN [err |-> "failed to get versions", versions |-> <<>>]
        ELSE [err |-> "", versions |-> versions.val]

\* ------------------------------------------------- storage/local.go
\* Save: os.WriteFile replaces the content at GetPath(filename, version)
Save(fs, filename, version, data) ==
    [fs EXCEPT ![GetPath(filename, version)] = [exists |-> TRUE, data |-> data]]

\* Delete: os.Remove
Delete(fs, filePath) == [fs EXCEPT ![filePath] = NoFile]

\* --------------------------------------------------- handlers/upload.go
Respond(status, message, metadata) ==
    [status |-> status, message |-> message, metadata |-> metadata]

\* the lock key is gone (DEL or expiry): no handler's acquisition of it is
\* the one in the store any more.  `held` records, for the properties,
\* whether the key in the store is the one this handler's SETNX wrote.
Unheld(l, k) ==
    [q \in Handlers |->
        IF LockKey(req[q].filename, req[q].version) = k
        THEN [l[q] EXCEPT !.held = FALSE] ELSE l[q]]

\* parseUploadRequest requiring the filename only
ParseUploadRequest_NameOnly(p) ==
    /\ pc[p] \in {"idle", "done"}
    /\ uploads < MaxUploads
    /\ \E filename \in FormNames, version \in FormVersions, fileData \in Payloads :
          IF filename = ""
          THEN /\ req' = [req EXCEPT ![p] = [filename |-> filename, version |-> version,
                                             fileData |-> <<>>]]
               /\ resp' = [resp EXCEPT ![p] =
                     Respond(400, "filename and version are required", <<>>)]
               /\ pc' = [pc EXCEPT ![p] = "done"]
          ELSE /\ req' = [req EXCEPT ![p] = [filename |-> filename, version |-> version,
                                             fileData |-> fileData]]
               /\ resp' = [resp EXCEPT ![p] = NoResp]
               /\ pc' = [pc EXCEPT ![p] = "acquire"]
    /\ uploads' = uploads + 1
    /\ loc' = [loc EXCEPT ![p] = NoLoc]
    /\ UNCHANGED <<rdb, files, now, faults>>
    /\ UNCHANGED <<hvars, wire>>

\* HandleUpload, lines 39-47: validateRequest and parseUploadRequest.
\* A handler that is idle (or has answered its previous request) takes the
\* next POST /upload; empty filename or version is answered 400 before the
\* file part is read.
ParseUploadRequest(p) ==
    /\ pc[p] \in {"idle", "done"}
    /\ uploads < MaxUploads
    /\ \E filename \in FormNames, version \in FormVersions, fileData \in Payloads :
          IF filename = "" \/ version = ""
          THEN /\ req' = [req EXCEPT ![p] = [filename |-> filename, version |-> version,
                                             fileData |-> <<>>]]
               /\ resp' = [resp EXCEPT ![p] =
                     Respond(400, "filename and version are required", <<>>)]
               /\ pc' = [pc EXCEPT ![p] = "done"]
          ELSE /\ req' = [req EXCEPT ![p] = [filename |-> filename, version |-> version,
                                             fileData |-> fileData]]
               /\ resp' = [resp EXCEPT ![p] = NoResp]
               /\ pc' = [pc EXCEPT ![p] = "acquire"]
    /\ uploads' = uploads + 1
    /\ loc' = [loc EXCEPT ![p] = NoLoc]
    /\ UNCHANGED <<rdb, files, now, faults>>
    /\ UNCHANGED <<hvars, wire>>

\* acquireUploadLock whose caller releases the lock also when it was not
\* acquired (the deferred ReleaseLock registered before the check)
AcquireUploadLock_ReleaseOnConflict(p) ==
    /\ pc[p] = "acquire"
    /\ LET lockKey == LockKey(req[p].filename, req[p].version)
       IN  \/ /\ faults < MaxFaults
              /\ resp' = [resp EXCEPT ![p] = Respond(500, "Failed to acquire lock", <<>>)]
              /\ pc' = [pc EXCEPT ![p] = "release"]
              /\ faults' = faults + 1
              /\ UNCHANGED <<rdb, loc>>
           \/ LET acquired == SetNX(rdb, lockKey, "locked", LockTTL)
              IN  /\ rdb' = acquired.db
                  /\ IF acquired.val
                     THEN /\ pc' = [pc EXCEPT ![p] = "process"]
                          /\ loc' = [loc EXCEPT ![p].held = TRUE]
                          /\ UNCHANGED resp
                     ELSE /\ resp' = [resp EXCEPT ![p] =
                                Respond(409, "Upload already in progress for this file and version", <<>>)]
                          /\ pc' = [pc EXCEPT ![p] = "release"]
                          /\ UNCHANGED loc
                  /\ UNCHANGED faults
    /\ UNCHANGED <<files, now, uploads, req>>
    /\ UNCHANGED <<hvars, wire>>

\* acquireUploadLock answering a held lock like a store error
AcquireUploadLock_ConflictAs500(p) ==
    /\ pc[p] = "acquire"
    /\ LET lockKey == LockKey(req[p].filename, req[p].version)
       IN  \/ /\ faults < MaxFaults
              /\ resp' = [resp EXCEPT ![p] = Respond(500, "Failed to acquire lock", <<>>)]
              /\ pc' = [pc EXCEPT ![p] = "done"]
              /\ faults' = faults + 1
              /\ UNCHANGED <<rdb, loc>>
           \/ LET acquired == SetNX(rdb, lockKey, "locked", LockTTL)
              IN  /\ rdb' = acquired.db
                  /\ IF acquired.val
                     THEN /\ pc' = [pc EXCEPT ![p] = "process"]
                          /\ loc' = [loc EXCEPT ![p].held = TRUE]
                          /\ UNCHANGED resp
                     ELSE /\ resp' = [resp EXCEPT ![p] =
                                Respond(500, "Failed to acquire lock", <<>>)]
                          /\ pc' = [pc EXCEPT ![p] = "done"]
                          /\ UNCHANGED loc
                  /\ UNCHANGED faults
    /\ UNCHANGED <<files, now, uploads, req>>
    /\ UNCHANGED <<hvars, wire>>

\* acquireUploadLock: SET NX on the lock key
AcquireUploadLock(p) ==
    /\ pc[p] = "acquire"
    /\ LET lockKey == LockKey(req[p].filename, req[p].version)
       IN  \/ \* the store fails: 500
              /\ faults < MaxFaults
              /\ resp' = [resp EXCEPT ![p] = Respond(500, "Failed to acquire lock", <<>>)]
              /\ pc' = [pc EXCEPT ![p] = "done"]
              /\ faults' = faults + 1
              /\ UNCHANGED <<rdb, loc>>
           \/ \* the store answers
              LET acquired == SetNX(rdb, lockKey, "locked", LockTTL)
              IN  /\ rdb' = acquired.db
                  /\ IF acquired.val
                     THEN /\ pc' = [pc EXCEPT ![p] = "process"]
                          /\ loc' = [loc EXCEPT ![p].held = TRUE]
                          /\ UNCHANGED resp
                     ELSE /\ resp' = [resp EXCEPT ![p] =
                                Respond(409, "Upload already in progress for this file and version", <<>>)]
                          /\ pc' = [pc EXCEPT ![p] = "done"]
                          /\ UNCHANGED loc
                  /\ UNCHANGED faults
    /\ UNCHANGED <<files, now, uploads, req>>
    /\ UNCHANGED <<hvars, wire>>

\* the lock key's TTL (30 s) elapses: Redis removes the key
LockExpire(k) ==
    /\ k \in LockKeys
    /\ rdb[k].type # "none"
    /\ rdb[k].ttl > 0
    /\ rdb' = Del(rdb, k)
    /\ loc' = Unheld(loc, k)
    /\ UNCHANGED <<files, now, uploads, pc, req, resp, faults>>
    /\ UNCHANGED <<hvars, wire>>

\* processFileUpload, first goroutine: the checksum of the payload
ChecksumGoroutine(p) ==
    /\ pc[p] = "process"
    /\ ~loc[p].sumDone
    /\ loc' = [loc EXCEPT ![p].checksum = Checksum(req[p].fileData),
                          ![p].sumDone = TRUE]
    /\ UNCHANGED <<rdb, files, now, uploads, pc, req, resp, faults>>
    /\ UNCHANGED <<hvars, wire>>

\* processFileUpload, second goroutine: storage.Save.  A failed write
\* leaves the old content or, when WriteFile had already truncated the
\* file, an empty file.
WriteGoroutine(p) ==
    /\ pc[p] = "process"
    /\ ~loc[p].writeDone
    /\ \/ /\ files' = Save(files, req[p].filename, req[p].version, req[p].fileData)
          /\ loc' = [loc EXCEPT ![p].filePath = GetPath(req[p].filename, req[p].version),
                                ![p].writeDone = TRUE]
          /\ UNCHANGED faults
       \/ /\ faults < MaxFaults
          /\ files' \in {files, Save(files, req[p].filename, req[p].version, <<>>)}
          /\ loc' = [loc EXCEPT ![p].writeErr = TRUE, ![p].writeDone = TRUE]
          /\ faults' = faults + 1
    /\ UNCHANGED <<rdb, now, uploads, pc, req, resp>>
    /\ UNCHANGED <<hvars, wire>>

\* processFileUpload returning without wg.Wait, as soon as the write is done
ProcessFileUploadReturn_NoWait(p) ==
    /\ pc[p] = "process"
    /\ loc[p].writeDone
    /\ IF loc[p].writeErr
       THEN /\ loc' = [loc EXCEPT ![p].checksum = <<>>, ![p].filePath = <<>>]
            /\ resp' = [resp EXCEPT ![p] = Respond(500, "Failed to process file", <<>>)]
            /\ pc' = [pc EXCEPT ![p] = "release"]
       ELSE /\ pc' = [pc EXCEPT ![p] = "verify"]
            /\ UNCHANGED <<loc, resp, faults>>
    /\ UNCHANGED <<rdb, files, now, uploads, req, faults>>
    /\ UNCHANGED <<hvars, wire>>

\* processFileUpload after wg.Wait, and HandleUpload lines 60-63
ProcessFileUploadReturn(p) ==
    /\ pc[p] = "process"
    /\ loc[p].sumDone /\ loc[p].writeDone
    /\ IF loc[p].writeErr
       THEN /\ loc' = [loc EXCEPT ![p].checksum = <<>>, ![p].filePath = <<>>]
            /\ resp' = [resp EXCEPT ![p] = Respond(500, "Failed to process file", <<>>)]
            /\ pc' = [pc EXCEPT ![p] = "release"]
       ELSE /\ pc' = [pc EXCEPT ![p] = "verify"]
            /\ UNCHANGED <<loc, resp, faults>>
    /\ UNCHANGED <<rdb, files, now, uploads, req, faults>>
    /\ UNCHANGED <<hvars, wire>>

\* verifyFile with the checksum comparison left out (length only)
VerifyFile_SizeOnly(p) ==
    /\ pc[p] = "verify"
    /\ LET file == files[loc[p].filePath]
           verified == /\ file.exists
                       /\ Len(file.data) = Len(req[p].fileData)
       IN  \/ /\ pc' = [pc EXCEPT ![p] = IF verified THEN "build" ELSE "verifyDelete"]
              /\ UNCHANGED faults
           \/ /\ file.exists
              /\ faults < MaxFaults
              /\ pc' = [pc EXCEPT ![p] = "verifyDelete"]
              /\ faults' = faults + 1
    /\ UNCHANGED <<rdb, files, now, uploads, req, loc, resp>>
    /\ UNCHANGED <<hvars, wire>>

\* verifyFile: read back, compare length and checksum
VerifyFile(p) ==
    /\ pc[p] = "verify"
    /\ LET file == files[loc[p].filePath]
           verified == /\ file.exists
                       /\ Len(file.data) = Len(req[p].fileData)
                       /\ Checksum(file.data) = loc[p].checksum
       IN  \/ \* storage.Get answers
              /\ pc' = [pc EXCEPT ![p] = IF verified THEN "build" ELSE "verifyDelete"]
              /\ UNCHANGED faults
           \/ \* storage.Get fails on an existing file
              /\ file.exists
              /\ faults < MaxFaults
              /\ pc' = [pc EXCEPT ![p] = "verifyDelete"]
              /\ faults' = faults + 1
    /\ UNCHANGED <<rdb, files, now, uploads, req, loc, resp>>
    /\ UNCHANGED <<hvars, wire>>

\* HandleUpload lines 67-69: best-effort Delete, then 500
\* the verification failure answered with the message of a failed commit
VerifyFailed_SameMessage(p) ==
    /\ pc[p] = "verifyDelete"
    /\ \/ /\ files' = Delete(files, loc[p].filePath)
          /\ UNCHANGED faults
       \/ /\ files[loc[p].filePath].exists
          /\ faults < MaxFaults
          /\ faults' = faults + 1
          /\ UNCHANGED files
    /\ resp' = [resp EXCEPT ![p] = Respond(500, "Failed to store metadata", <<>>)]
    /\ pc' = [pc EXCEPT ![p] = "release"]
    /\ UNCHANGED <<rdb, now, uploads, req, loc>>
    /\ UNCHANGED <<hvars, wire>>

VerifyFailed(p) ==
    /\ pc[p] = "verifyDelete"
    /\ \/ \* os.Remove succeeds, or finds no file
          /\ files' = Delete(files, loc[p].filePath)
          /\ UNCHANGED faults
       \/ \* os.Remove fails and the file stays
          /\ files[loc[p].filePath].exists
          /\ faults < MaxFaults
          /\ faults' = faults + 1
          /\ UNCHANGED files
    /\ resp' = [resp EXCEPT ![p] = Respond(500, "File verification failed", <<>>)]
    /\ pc' = [pc EXCEPT ![p] = "release"]
    /\ UNCHANGED <<rdb, now, uploads, req, loc>>
    /\ UNCHANGED <<hvars, wire>>

\* HandleUpload lines 73-80: the metadata, stamped with time.Now().  The
\* clock never runs backwards: a reading is at least the previous reading.
BuildMetadata(p) ==
    /\ pc[p] = "build"
    /\ \E t \in now..MaxTime :
          /\ now' = t
          /\ loc' = [loc EXCEPT ![p].metadata =
                        [Filename |-> req[p].filename,
                         Version |-> req[p].version,
                         Checksum |-> loc[p].checksum,
                         FilePath |-> loc[p].filePath,
                         UploadedAt |-> t,
                         Size |-> Len(req[p].fileData)]]
    /\ pc' = [pc EXCEPT ![p] = "store"]
    /\ UNCHANGED <<rdb, files, uploads, req, resp, faults>>
    /\ UNCHANGED <<hvars, wire>>

\* storeMetadata, line 212: the Redis transaction
StoreMetadata(p) ==
    /\ pc[p] = "store"
    /\ \/ \* the transaction does not reach the store
          /\ faults < MaxFaults
          /\ pc' = [pc EXCEPT ![p] = "rollback"]
          /\ faults' = faults + 1
          /\ UNCHANGED rdb
       \/ \* EXEC runs
          LET stored == StoreFileMetadata(rdb, loc[p].metadata)
          IN  /\ rdb' = stored.db
              /\ pc' = [pc EXCEPT ![p] = IF stored.err THEN "rollback" ELSE "respond"]
              /\ UNCHANGED faults
    /\ UNCHANGED <<files, now, uploads, req, loc, resp>>
    /\ UNCHANGED <<hvars, wire>>

\* storeMetadata lines 213-215 and HandleUpload lines 83-84
Rollback(p) ==
    /\ pc[p] = "rollback"
    /\ \/ \* os.Remove succeeds, or finds no file
          /\ files' = Delete(files, loc[p].filePath)
          /\ UNCHANGED faults
       \/ \* os.Remove fails and the file stays
          /\ files[loc[p].filePath].exists
          /\ faults < MaxFaults
          /\ faults' = faults + 1
          /\ UNCHANGED files
    /\ resp' = [resp EXCEPT ![p] = Respond(500, "Failed to store metadata", <<>>)]
    /\ pc' = [pc EXCEPT ![p] = "release"]
    /\ UNCHANGED <<rdb, now, uploads, req, loc>>
    /\ UNCHANGED <<hvars, wire>>

\* HandleUpload lines 88-92
RespondSuccess(p) ==
    /\ pc[p] = "respond"
    /\ resp' = [resp EXCEPT ![p] =
                  Respond(200, "File uploaded successfully", loc[p].metadata)]
    /\ pc' = [pc EXCEPT ![p] = "release"]
    /\ UNCHANGED <<rdb, files, now, uploads, req, loc, faults>>
    /\ UNCHANGED <<hvars, wire>>

\* the deferred ReleaseLock: DEL on the lock key, its error dropped
ReleaseLock(p) ==
    /\ pc[p] = "release"
    /\ \/ /\ rdb' = Del(rdb, LockKey(req[p].filename, req[p].version))
          /\ loc' = [Unheld(loc, LockKey(req[p].filename, req[p].version))
                        EXCEPT ![p] = NoLoc]
          /\ UNCHANGED faults
       \/ /\ faults < MaxFaults
          /\ faults' = faults + 1
          /\ loc' = [loc EXCEPT ![p] = NoLoc]
          /\ UNCHANGED rdb
    /\ pc' = [pc EXCEPT ![p] = "done"]
    /\ UNCHANGED <<files, now, uploads, req, resp>>
    /\ UNCHANGED <<hvars, wire>>

\* ------------------------------------------- grpc/stream_manager.go
\* the IDs that have an entry in sm.streams
Registered == {c \in Consumers : streams[c] # 0}

\* GetActiveConsumerCount: len(sm.streams)
GetActiveConsumerCount == Cardinality(Registered)

\* GetConsumerIDs
GetConsumerIDs == Registered

\* Register and Unregister taking no lock against Broadcast
WriteLockFree_Always == TRUE

\* sm.mu.Lock() can be taken: no Broadcast holds the read lock.  Register
\* and Unregister hold the write lock for their whole body, so each is one
\* step.
WriteLockFree == \A b \in Broadcasters : bc[b].pc # "loop"

\* Register closing the channel it replaces
Register_ClosePrior(consumerID) ==
    /\ made < MaxRegisters
    /\ made' = made + 1
    /\ streams' = [streams EXCEPT ![consumerID] = made + 1]
    /\ IF streams[consumerID] # 0
       THEN chans' = [chans EXCEPT ![streams[consumerID]].closed = TRUE]
       ELSE UNCHANGED chans
    /\ UNCHANGED crash

\* Register handing the backlog of the replaced channel to the new one
Register_CopyBacklog(consumerID) ==
    /\ made < MaxRegisters
    /\ made' = made + 1
    /\ streams' = [streams EXCEPT ![consumerID] = made + 1]
    /\ IF streams[consumerID] # 0
       THEN chans' = [chans EXCEPT ![made + 1].buf = chans[streams[consumerID]].buf]
       ELSE UNCHANGED chans
    /\ UNCHANGED crash

\* Register: make(chan, 100), sm.streams[consumerID] = updateChan.  The
\* channel an earlier Register stored under the ID is left as it is.
Register(consumerID) ==
    /\ made < MaxRegisters
    /\ made' = made + 1
    /\ streams' = [streams EXCEPT ![consumerID] = made + 1]
    /\ UNCHANGED <<chans, crash>>

\* Unregister without the exists check: closing the nil channel of an
\* unknown ID panics
Unregister_NoExistsCheck(consumerID) ==
    IF streams[consumerID] # 0
    THEN LET ch == streams[consumerID]
         IN  /\ IF chans[ch].closed
                THEN crash' = "close of closed channel" /\ UNCHANGED chans
                ELSE chans' = [chans EXCEPT ![ch].closed = TRUE] /\ UNCHANGED crash
             /\ streams' = [streams EXCEPT ![consumerID] = 0]
    ELSE crash' = "close of nil channel" /\ UNCHANGED <<streams, chans>>

\* Unregister: close and delete the entry, if there is one
Unregister(consumerID) ==
    IF streams[consumerID] # 0
    THEN LET ch == streams[consumerID]
         IN  /\ IF chans[ch].closed
                THEN crash' = "close of closed channel" /\ UNCHANGED chans
                ELSE chans' = [chans EXCEPT ![ch].closed = TRUE] /\ UNCHANGED crash
             /\ streams' = [streams EXCEPT ![consumerID] = 0]
    ELSE UNCHANGED <<streams, chans, crash>>

\* Broadcast reporting an empty registry as an error
BroadcastBegin_ErrorWhenEmpty(b) ==
    /\ crash = ""
    /\ bc[b].pc \in {"idle", "done"}
    /\ sent < MaxBroadcasts
    /\ \E name \in WorkerNames, version \in EventVersions :
          LET update == [id |-> sent + 1, WorkerName |-> name, Version |-> version]
          IN  bc' = [bc EXCEPT ![b] =
                  IF Registered = {}
                  THEN [NoBroadcast EXCEPT !.pc = "done", !.err = TRUE,
                                           !.status = 500, !.clientErr = TRUE]
                  ELSE [NoBroadcast EXCEPT !.pc = "loop", !.update = update,
                                           !.todo = Registered]]
    /\ sent' = sent + 1
    /\ UNCHANGED <<streams, chans, made, offered, drops, sess, crash, disturb, uvars, wire>>

\* Broadcast, lines 284-289: RLock; an empty registry returns nil.  The
\* ingress endpoint /internal/broadcast and BroadcastClient.BroadcastUpdate
\* turn the returned error into the HTTP status and the sender's error.
BroadcastBegin(b) ==
    /\ crash = ""
    /\ bc[b].pc \in {"idle", "done"}
    /\ sent < MaxBroadcasts
    /\ \E name \in WorkerNames, version \in EventVersions :
          LET update == [id |-> sent + 1, WorkerName |-> name, Version |-> version]
          IN  bc' = [bc EXCEPT ![b] =
                  IF Registered = {}
                  THEN [NoBroadcast EXCEPT !.pc = "done", !.status = 200]
                  ELSE [NoBroadcast EXCEPT !.pc = "loop", !.update = update,
                                           !.todo = Registered]]
    /\ sent' = sent + 1
    /\ UNCHANGED <<streams, chans, made, offered, drops, sess, crash, disturb, uvars, wire>>

\* Broadcast whose send waits for room in the channel (no default case)
BroadcastSelect_Blocking(b, consumerID) ==
    /\ crash = ""
    /\ bc[b].pc = "loop"
    /\ consumerID \in bc[b].todo
    /\ LET ch == streams[consumerID]
           update == bc[b].update
       IN  /\ Len(chans[ch].buf) < QueueCap
           /\ offered' = [offered EXCEPT ![ch] = Append(@, update.id)]
           /\ chans' = [chans EXCEPT ![ch].buf = Append(@, update)]
           /\ bc' = [bc EXCEPT ![b].todo = @ \ {consumerID}]
    /\ UNCHANGED <<streams, made, drops, sess, sent, crash, disturb, uvars, wire>>

\* Broadcast that makes room in a full channel by discarding its oldest update
BroadcastSelect_DropOldest(b, consumerID) ==
    /\ crash = ""
    /\ bc[b].pc = "loop"
    /\ consumerID \in bc[b].todo
    /\ LET ch == streams[consumerID]
           update == bc[b].update
       IN  /\ offered' = [offered EXCEPT ![ch] = Append(@, update.id)]
           /\ IF Len(chans[ch].buf) < QueueCap
              THEN /\ chans' = [chans EXCEPT ![ch].buf = Append(@, update)]
                   /\ bc' = [bc EXCEPT ![b].todo = @ \ {consumerID}]
                   /\ UNCHANGED drops
              ELSE /\ chans' = [chans EXCEPT ![ch].buf = Append(Tail(@), update)]
                   /\ drops' = [drops EXCEPT ![ch] = @ \cup {update.id}]
                   /\ bc' = [bc EXCEPT ![b].todo = @ \ {consumerID},
                                       ![b].errors = Append(@, consumerID)]
    /\ UNCHANGED <<streams, made, sess, sent, crash, disturb, uvars, wire>>

\* Broadcast, lines 292-301: one iteration of the range over sm.streams
\* (map order: any remaining consumer); the send never blocks
BroadcastSelect(b, consumerID) ==
    /\ crash = ""
    /\ bc[b].pc = "loop"
    /\ consumerID \in bc[b].todo
    /\ LET ch == streams[consumerID]
           update == bc[b].update
       IN  /\ offered' = [offered EXCEPT ![ch] = Append(@, update.id)]
           /\ CASE chans[ch].closed ->
                     /\ crash' = "send on closed channel"
                     /\ bc' = [bc EXCEPT ![b].todo = @ \ {consumerID}]
                     /\ UNCHANGED <<chans, drops>>
                [] Len(chans[ch].buf) < QueueCap ->
                     /\ chans' = [chans EXCEPT ![ch].buf = Append(@, update)]
                     /\ bc' = [bc EXCEPT ![b].todo = @ \ {consumerID}]
                     /\ UNCHANGED <<drops, crash>>
                [] OTHER ->
                     /\ drops' = [drops EXCEPT ![ch] = @ \cup {update.id}]
                     /\ bc' = [bc EXCEPT ![b].todo = @ \ {consumerID},
                                         ![b].errors = Append(@, consumerID)]
                     /\ UNCHANGED <<chans, crash>>
    /\ UNCHANGED <<streams, made, sess, sent, disturb, uvars, wire>>

\* Broadcast, lines 303-307, and the answer of the ingress endpoint
\* (server.go lines 231-237) as BroadcastUpdate reads it (lines 83-88)
BroadcastReturn(b) ==
    /\ crash = ""
    /\ bc[b].pc = "loop"
    /\ bc[b].todo = {}
    /\ LET err == Len(bc[b].errors) > 0
           status == IF err THEN 500 ELSE 200
       IN  bc' = [bc EXCEPT ![b] =
               [NoBroadcast EXCEPT !.pc = "done", !.err = err, !.status = status,
                                   !.clientErr = (status # 200)]]
    /\ UNCHANGED <<streams, chans, made, offered, drops, sess, sent, crash, disturb, uvars, wire>>

\* ------------------------------------------------- grpc/handlers.go
\* the filter of SubscribeWorkerUpdates, lines 191-203
Found(workerNames, update) ==
    \E i \in 1..Len(workerNames) : workerNames[i] = update.WorkerName

\* the filter left out: nothing is skipped
Skip_Never(workerNames, update) == FALSE

Skip(workerNames, update) == Len(workerNames) > 0 /\ ~Found(workerNames, update)

\* SubscribeWorkerUpdates starting the liveness ticker before the ID check
SubscribeWorkerUpdates_TickerFirst(s) ==
    /\ crash = ""
    /\ sess[s].pc \in {"idle", "done"}
    /\ ~sess[s].ticker
    /\ \E consumerID \in ConsumerIds, workerNames \in WorkerNameLists :
          IF consumerID = ""
          THEN /\ sess' = [sess EXCEPT ![s] =
                     [NoSession EXCEPT !.pc = "done", !.err = "InvalidArgument",
                                       !.ticker = TRUE]]
               /\ UNCHANGED <<streams, chans, made, crash>>
          ELSE /\ WriteLockFree
               /\ Register(consumerID)
               /\ sess' = [sess EXCEPT ![s] =
                     [NoSession EXCEPT !.pc = "range", !.ConsumerId = consumerID,
                                       !.WorkerNames = workerNames,
                                       !.updateChan = made + 1,
                                       !.ticker = TRUE]]
    /\ UNCHANGED <<offered, drops, bc, sent, disturb, uvars, wire>>

\* SubscribeWorkerUpdates, lines 162-171: reject an empty ID, else Register
\* and defer Unregister
SubscribeWorkerUpdates(s) ==
    /\ crash = ""
    /\ sess[s].pc \in {"idle", "done"}
    /\ ~sess[s].ticker
    /\ \E consumerID \in ConsumerIds, workerNames \in WorkerNameLists :
          IF consumerID = ""
          THEN /\ sess' = [sess EXCEPT ![s] =
                     [NoSession EXCEPT !.pc = "done", !.err = "InvalidArgument"]]
               /\ UNCHANGED <<streams, chans, made, crash>>
          ELSE /\ WriteLockFree
               /\ Register(consumerID)
               /\ sess' = [sess EXCEPT ![s] =
                     [NoSession EXCEPT !.pc = "range", !.ConsumerId = consumerID,
                                       !.WorkerNames = workerNames,
                                       !.updateChan = made + 1,
                                       !.ticker = TRUE]]
    /\ UNCHANGED <<offered, drops, bc, sent, disturb, uvars, wire>>

\* the range loop receiving the newest buffered update first
Receive_NewestFirst(s) ==
    /\ crash = ""
    /\ sess[s].pc = "range"
    /\ LET ch == sess[s].updateChan
       IN  /\ chans[ch].buf # <<>>
           /\ LET update == chans[ch].buf[Len(chans[ch].buf)]
              IN  sess' = [sess EXCEPT
                      ![s].update = IF Skip(sess[s].WorkerNames, update)
                                    THEN NoUpdate ELSE update,
                      ![s].dequeued = Append(@, update),
                      ![s].pc = IF Skip(sess[s].WorkerNames, update)
                                THEN "range" ELSE "send"]
           /\ chans' = [chans EXCEPT ![ch].buf = SubSeq(@, 1, Len(@) - 1)]
    /\ UNCHANGED <<streams, made, offered, drops, bc, sent, crash, disturb, uvars, wire>>

\* for update := range updateChan: receive the next buffered update (also
\* from a closed channel) and apply the filter
Receive(s) ==
    /\ crash = ""
    /\ sess[s].pc = "range"
    /\ LET ch == sess[s].updateChan
       IN  /\ chans[ch].buf # <<>>
           /\ LET update == Head(chans[ch].buf)
              IN  sess' = [sess EXCEPT
                      ![s].update = IF Skip(sess[s].WorkerNames, update)
                                    THEN NoUpdate ELSE update,
                      ![s].dequeued = Append(@, update),
                      ![s].pc = IF Skip(sess[s].WorkerNames, update)
                                THEN "range" ELSE "send"]
           /\ chans' = [chans EXCEPT ![ch].buf = Tail(@)]
    /\ UNCHANGED <<streams, made, offered, drops, bc, sent, crash, disturb, uvars, wire>>

\* the range loop ending as soon as the channel is closed, buffered
\* updates left behind
RangeEnd_DropsBuffered(s) ==
    /\ crash = ""
    /\ sess[s].pc = "range"
    /\ chans[sess[s].updateChan].closed
    /\ sess' = [sess EXCEPT ![s].pc = "unregister"]
    /\ UNCHANGED <<streams, chans, made, offered, drops, bc, sent, crash, disturb, uvars, wire>>

\* the range loop ends when the channel is closed and drained (line 213)
RangeEnd(s) ==
    /\ crash = ""
    /\ sess[s].pc = "range"
    /\ chans[sess[s].updateChan].buf = <<>>
    /\ chans[sess[s].updateChan].closed
    /\ sess' = [sess EXCEPT ![s].pc = "unregister"]
    /\ UNCHANGED <<streams, chans, made, offered, drops, bc, sent, crash, disturb, uvars, wire>>

\* stream.Send, lines 206-210: it fails on a cancelled stream and may fail
\* on any transport error
StreamSend(s) ==
    /\ crash = ""
    /\ sess[s].pc = "send"
    /\ \/ /\ ~sess[s].cancelled
          /\ sess' = [sess EXCEPT ![s].delivered = Append(@, sess[s].update),
                                  ![s].update = NoUpdate,
                                  ![s].pc = "range"]
          /\ UNCHANGED disturb
       \/ /\ sess[s].cancelled
          /\ sess' = [sess EXCEPT ![s].err = "send", ![s].update = NoUpdate,
                                  ![s].pc = "unregister"]
          /\ UNCHANGED disturb
       \/ /\ ~sess[s].cancelled
          /\ disturb < MaxDisturb
          /\ disturb' = disturb + 1
          /\ sess' = [sess EXCEPT ![s].err = "send", ![s].update = NoUpdate,
                                  ![s].pc = "unregister"]
    /\ UNCHANGED <<streams, chans, made, offered, drops, bc, sent, crash, uvars, wire>>

\* the caller cancels the stream (disconnect, deadline, stop):
\* stream.Context() is done.  Only the ticker goroutine (lines 174-186)
\* selects on it; the range loop does not.
Cancel(s) ==
    /\ crash = ""
    /\ sess[s].pc \in {"range", "send"}
    /\ ~sess[s].cancelled
    /\ sess' = [sess EXCEPT ![s].cancelled = TRUE]
    /\ disturb < MaxDisturb
    /\ disturb' = disturb + 1
    /\ UNCHANGED <<streams, chans, made, offered, drops, bc, sent, crash, uvars, wire>>

\* Unregister called only after the range loop, not deferred: the return
\* on a Send error skips it
DeferredUnregister_NotDeferred(s) ==
    /\ crash = ""
    /\ sess[s].pc = "unregister"
    /\ WriteLockFree
    /\ IF sess[s].err = ""
       THEN Unregister(sess[s].ConsumerId)
       ELSE UNCHANGED <<streams, chans, crash>>
    /\ sess' = [sess EXCEPT ![s] =
          [NoSession EXCEPT !.pc = "done", !.ConsumerId = sess[s].ConsumerId,
                            !.delivered = sess[s].delivered, !.err = sess[s].err,
                            !.ticker = sess[s].ticker]]
    /\ UNCHANGED <<made, offered, drops, bc, sent, disturb, uvars, wire>>

\* the ticker goroutine without the Done case: it ends only with the handler
TickerExit_IgnoresCancel(s) ==
    /\ crash = ""
    /\ sess[s].ticker
    /\ sess[s].pc = "done"
    /\ sess' = [sess EXCEPT ![s].ticker = FALSE]
    /\ UNCHANGED <<streams, chans, made, offered, drops, bc, sent, crash, disturb, uvars, wire>>

\* the ticker goroutine, lines 174-186: it returns when stream.Context()
\* is done, which is when the caller cancels or the handler has returned.
\* Its tick (line 179) does nothing.
TickerExit(s) ==
    /\ crash = ""
    /\ sess[s].ticker
    /\ sess[s].cancelled \/ sess[s].pc = "done"
    /\ sess' = [sess EXCEPT ![s].ticker = FALSE]
    /\ UNCHANGED <<streams, chans, made, offered, drops, bc, sent, crash, disturb, uvars, wire>>

\* the deferred Unregister(consumerID), line 171, and the return
DeferredUnregister(s) ==
    /\ crash = ""
    /\ sess[s].pc = "unregister"
    /\ WriteLockFree
    /\ Unregister(sess[s].ConsumerId)
    /\ sess' = [sess EXCEPT ![s] =
          [NoSession EXCEPT !.pc = "done", !.ConsumerId = sess[s].ConsumerId,
                            !.delivered = sess[s].delivered, !.err = sess[s].err,
                            !.ticker = sess[s].ticker]]
    /\ UNCHANGED <<made, offered, drops, bc, sent, disturb, uvars, wire>>

\* Unregister called by another owner of the StreamManager (eviction)
Evict(consumerID) ==
    /\ crash = ""
    /\ WriteLockFree
    /\ Unregister(consumerID)
    /\ UNCHANGED <<made, offered, drops, sess, bc, sent, uvars, wire>>
    /\ disturb < MaxDisturb
    /\ disturb' = disturb + 1

Next ==
    \/ \E p \in Handlers : ParseUploadRequest(p)
    \/ \E p \in Handlers : AcquireUploadLock(p)
    \/ \E k \in LockKeys : LockExpire(k)
    \/ \E p \in Handlers : ChecksumGoroutine(p)
    \/ \E p \in Handlers : WriteGoroutine(p)
    \/ \E p \in Handlers : ProcessFileUploadReturn(p)
    \/ \E p \in Handlers : VerifyFile(p)
    \/ \E p \in Handlers : VerifyFailed(p)
    \/ \E p \in Handlers : BuildMetadata(p)
    \/ \E p \in Handlers : StoreMetadata(p)
    \/ \E p \in Handlers : Rollback(p)
    \/ \E p \in Handlers : RespondSuccess(p)
    \/ \E p \in Handlers : ReleaseLock(p)

HubNext ==
    \/ \E s \in Sessions : SubscribeWorkerUpdates(s)
    \/ \E s \in Sessions : Receive(s)
    \/ \E s \in Sessions : RangeEnd(s)
    \/ \E s \in Sessions : StreamSend(s)
    \/ \E s \in Sessions : Cancel(s)
    \/ \E s \in Sessions : DeferredUnregister(s)
    \/ \E s \in Sessions : TickerExit(s)
    \/ \E c \in Consumers : Evict(c)
    \/ \E b \in Broadcasters : BroadcastBegin(b)
    \/ \E b \in Broadcasters, c \in Consumers : BroadcastSelect(b, c)
    \/ \E b \in Broadcasters : BroadcastReturn(b)

\* ------------------------------------------ grpc/broadcast_client.go
\* strconv / encoding/json: an integer as its decimal digits
RECURSIVE FormatInt(_)
FormatInt(n) ==
    IF n < 10 THEN <<n>> ELSE Append(FormatInt(n \div 10), n % 10)

\* encoding/json: the float64 that a JSON number decodes to
RECURSIVE ParseFloat(_)
ParseFloat(digits) ==
    IF digits = <<>> THEN 0
    ELSE ParseFloat(SubSeq(digits, 1, Len(digits) - 1)) * 10 + digits[Len(digits)]

JsonString(str) == [t |-> "string", v |-> str]
JsonNumber(n) == [t |-> "number", v |-> FormatInt(n)]

\* json.Marshal of the payload map
Marshal(payload) ==
    [k \in DOMAIN payload |->
        IF payload[k].t = "int" THEN JsonNumber(payload[k].v) ELSE JsonString(payload[k].v)]

\* json.Unmarshal into map[string]interface{}: every number is a float64
Unmarshal(json) ==
    [k \in DOMAIN json |->
        IF json[k].t = "number"
        THEN [t |-> "float64", v |-> ParseFloat(json[k].v)]
        ELSE [t |-> "string", v |-> json[k].v]]

\* the type assertions x.(string) and x.(float64), second result dropped
AsString(x) == IF x.t = "string" THEN x.v ELSE ""
AsFloat64(x) == IF x.t = "float64" THEN x.v ELSE 0

\* BroadcastUpdate lines 32-64: the multipart body, with the metadata as
\* JSON and the bytes as the file part; the timestamp is time.Now().Unix()
\* (the timestamp of the committed record is not a parameter of
\* BroadcastUpdate)
RequestBody(workerName, version, checksum, filePath, workerCode, size, unixNow) ==
    [metadata |-> Marshal([worker_name |-> [t |-> "string", v |-> workerName],
                           version |-> [t |-> "string", v |-> version],
                           checksum |-> [t |-> "string", v |-> checksum],
                           file_path |-> [t |-> "string", v |-> filePath],
                           size |-> [t |-> "int", v |-> size],
                           timestamp |-> [t |-> "int", v |-> unixNow]]),
     worker_code |-> [filename |-> workerName, content |-> workerCode]]

\* BroadcastUpdate: the upload service submits a committed event; the
\* request is built and posted to /internal/broadcast
BroadcastUpdate ==
    /\ wire.pc \in {"idle", "done"}
    /\ \E name \in WorkerNames, version \in WireVersions, data \in WirePayloads,
          uploadedAt \in 0..MaxClock :
          \E unixNow \in uploadedAt..MaxClock :
             LET event == [Filename |-> name, Version |-> version,
                           Checksum |-> Checksum(data),
                           FilePath |-> GetPath(name, version),
                           UploadedAt |-> uploadedAt, Size |-> Len(data)]
             IN  wire' = [NoWire EXCEPT
                            !.pc = "posted", !.event = event, !.fileData = data,
                            !.request = RequestBody(name, version, event.Checksum,
                                                    event.FilePath, data, event.Size,
                                                    unixNow)]
    /\ UNCHANGED <<uvars, hvars>>

\* ------------------------------------------------------- grpc/server.go
\* the handler of /internal/broadcast, lines 180-227: the form is parsed
\* and the WorkerUpdate handed to StreamManager.Broadcast is built; a file
\* part without a filename is not a file (FormFile fails, 400).  The
\* answer is read by BroadcastUpdate, lines 83-88.
InternalBroadcast ==
    /\ wire.pc = "posted"
    /\ LET metadata == Unmarshal(wire.request.metadata)
           file == wire.request.worker_code
       IN  IF file.filename = ""
           THEN wire' = [wire EXCEPT !.pc = "done", !.status = 400, !.err = TRUE]
           ELSE wire' = [wire EXCEPT
                  !.pc = "done", !.status = 200,
                  !.update = [WorkerName |-> AsString(metadata.worker_name),
                              Version |-> AsString(metadata.version),
                              Checksum |-> AsString(metadata.checksum),
                              WorkerCode |-> file.content,
                              Size |-> AsFloat64(metadata.size),
                              FilePath |-> AsString(metadata.file_path),
                              Timestamp |-> AsFloat64(metadata.timestamp)]]
    /\ UNCHANGED <<uvars, hvars>>

WireNext == BroadcastUpdate \/ InternalBroadcast

Spec == Init /\ [][Next]_vars

HubSpec == Init /\ [][HubNext]_vars

WireSpec == Init /\ [][WireNext]_vars

\* ------------------------------------------------------------------ claims

\* C1: for every (name, version), at most one ingestion is between its
\* successful AcquireLock and its ReleaseLock for that key.
C1_MutualExclusion ==
    \A p, q \in Handlers :
        (p # q /\ InFlight(p) /\ InFlight(q)) => ~SameKey(p, q)

\* C2: two concurrent ingestions of the identical (name, version), with no
\* store or storage failure, yield one success and one Conflict: the one
\* that executes AcquireLock while the other is in flight is answered 409,
\* and the lock holder of such a pair is answered 200.
C2_OneSuccessOneConflict ==
    [][\A p \in Handlers :
          /\ ( /\ pc[p] = "acquire" /\ pc'[p] # "acquire" /\ faults' = faults
               /\ \E q \in Handlers \ {p} : InFlight(q) /\ SameKey(p, q) )
             => resp'[p].status = 409
          /\ ( /\ InFlight(p) /\ pc[p] # "release" /\ pc'[p] = "release"
               /\ faults' = 0
               /\ \E q \in Handlers \ {p} :
                     pc[q] = "done" /\ SameKey(p, q) /\ resp[q].status = 409 )
             => resp'[p].status = 200
      ]_vars

\* C3: whenever a metadata record exists for (name, version), its checksum
\* is the SHA-256 of the bytes stored at its storage path.
C3_RecordMatchesBlob ==
    \A n \in Names, v \in Versions :
        LET m == GetFileMetadata(rdb, n, v)
        IN  m.err = "" =>
              /\ files[m.metadata.FilePath].exists
              /\ Checksum(files[m.metadata.FilePath].data) = m.metadata.Checksum

\* C4: a metadata record that readers can see (by version, or as the
\* latest of its name) always has its blob in the storage.
C4_VisibleRecordHasBlob ==
    \A n \in Names :
        /\ \A v \in Versions :
              LET m == GetFileMetadata(rdb, n, v)
              IN  m.err = "" => files[m.metadata.FilePath].exists
        /\ LET m == GetLatestFileMetadata(rdb, n)
           IN  m.err = "" => files[m.metadata.FilePath].exists

\* C5: when HandleUpload returns after having acquired the lock, the lock
\* key of its (name, version) is gone, so that a new ingestion can take it.
C5_LockReleasedOnReturn ==
    [][\A p \in Handlers :
          (pc[p] = "release" /\ pc'[p] = "done")
             => rdb'[LockKey(req[p].filename, req[p].version)].type = "none"
      ]_vars

\* C6: a success response carries the SHA-256 of the submitted payload and
\* its length, and the blob at GetPath(name, version) hashes to that
\* checksum when the response is produced.
C6_SuccessChecksumMatchesBlob ==
    [][\A p \in Handlers :
          (pc[p] = "respond" /\ pc'[p] = "release")
             => LET m == resp'[p].metadata
                    f == files'[GetPath(req[p].filename, req[p].version)]
                IN  /\ resp'[p].status = 200
                    /\ m.Checksum = Checksum(req[p].fileData)
                    /\ m.Size = Len(req[p].fileData)
                    /\ f.exists
                    /\ Checksum(f.data) = m.Checksum
      ]_vars

\* C7: when the metadata transaction fails, nothing of it is written (no
\* record, index entry or latest pointer), the blob is deleted, and the
\* answer is the metadata error.
C7_CommitFailureRollsBack ==
    [][\A p \in Handlers :
          /\ (pc[p] = "store" /\ pc'[p] = "rollback") => rdb' = rdb
          /\ (pc[p] = "rollback" /\ pc'[p] = "release")
                => /\ resp'[p].status = 500
                   /\ resp'[p].message = "Failed to store metadata"
                   /\ ~files'[GetPath(req[p].filename, req[p].version)].exists
      ]_vars

\* the bytes at the handler's path are the bytes of its request
BlobIsPayload(p) ==
    /\ files[GetPath(req[p].filename, req[p].version)].exists
    /\ files[GetPath(req[p].filename, req[p].version)].data = req[p].fileData

\* C8 as claimed: a failed verification is answered with the verification
\* error, the written blob is deleted, and the metadata commit never runs.
C8_VerifyFailureDeletesBlob ==
    [][\A p \in Handlers :
          /\ (pc[p] = "verify" /\ pc'[p] = "build") => BlobIsPayload(p)
          /\ (pc[p] = "verify" /\ ~BlobIsPayload(p)) => pc'[p] \in {"verify", "verifyDelete"}
          /\ pc[p] = "verifyDelete" => pc'[p] \in {"verifyDelete", "release"}
          /\ (pc[p] = "verifyDelete" /\ pc'[p] = "release")
                => /\ resp'[p].status = 500
                   /\ resp'[p].message = "File verification failed"
                   /\ rdb' = rdb
                   /\ ~files'[GetPath(req[p].filename, req[p].version)].exists
      ]_vars

\* C8 amended: as above, but the delete is best effort: the blob is gone
\* whenever storage.Delete succeeds, and is left in place when it fails.
C8_VerifyFailureBestEffortDelete ==
    [][\A p \in Handlers :
          /\ (pc[p] = "verify" /\ pc'[p] = "build") => BlobIsPayload(p)
          /\ (pc[p] = "verify" /\ ~BlobIsPayload(p)) => pc'[p] \in {"verify", "verifyDelete"}
          /\ pc[p] = "verifyDelete" => pc'[p] \in {"verifyDelete", "release"}
          /\ (pc[p] = "verifyDelete" /\ pc'[p] = "release")
                => /\ resp'[p].status = 500
                   /\ resp'[p].message = "File verification failed"
                   /\ rdb' = rdb
                   /\ IF faults' = faults
                      THEN ~files'[GetPath(req[p].filename, req[p].version)].exists
                      ELSE files' = files
      ]_vars

\* C8 witness: a handler whose read-back differed from its payload has
\* answered the verification error, with the blob deleted and no record.
C8_Witness ==
    \E p \in Handlers :
        /\ pc[p] = "release"
        /\ resp[p].message = "File verification failed"
        /\ faults = 0
        /\ ~files[GetPath(req[p].filename, req[p].version)].exists
        /\ GetFileMetadata(rdb, req[p].filename, req[p].version).err # ""

Range(seq) == {seq[i] : i \in DOMAIN seq}

\* C9: the latest version of a name (pointer, or its fallback to the
\* index) is a member of the version index and has a readable record; it
\* is reported absent when nothing was committed for the name.
C9_LatestIsIndexedAndReadable ==
    \A n \in Names :
        LET latest == GetLatestVersion(rdb, n)
            all == GetAllVersions(rdb, n)
        IN  /\ latest.err = "" =>
                  /\ all.err = ""
                  /\ latest.version \in Range(all.versions)
                  /\ GetFileMetadata(rdb, n, latest.version).err = ""
            /\ ( /\ rdb[VersionsKey(n)].type = "none"
                 /\ rdb[LatestKey(n)].type = "none" ) => latest.err # ""

\* C10: record, index entry and latest pointer are written together or
\* not at all: readers see a record exactly for the indexed versions, a
\* pointer exactly when the index is not empty, and a failed transaction
\* leaves the key space as it was.
C10_CommitAllOrNothing ==
    /\ [](\A n \in Names :
            LET all == GetAllVersions(rdb, n)
            IN  /\ all.err = ""
                /\ \A v \in Versions :
                      GetFileMetadata(rdb, n, v).err = "" <=> v \in Range(all.versions)
                /\ Get(rdb, LatestKey(n)).nil <=> all.versions = <<>>)
    /\ [][\A p \in Handlers :
            (pc[p] = "store" /\ pc'[p] = "rollback") => rdb' = rdb]_vars

\* C11: last-committed-wins.  The step in which an ingestion's metadata
\* transaction completes successfully leaves the latest pointer naming that
\* ingestion's version, whatever the upload timestamps in the index and
\* whatever the order in which the ingestions started; and the pointer
\* moves only in a step that executes a metadata transaction.
C11_LastCommittedWins ==
    [][/\ \A p \in Handlers :
            (pc[p] = "store" /\ pc'[p] = "respond") =>
                GetLatestVersion(rdb', req[p].filename) =
                    [err |-> "", version |-> req[p].version]
       /\ \A n \in Names :
            (rdb'[LatestKey(n)] # rdb[LatestKey(n)]) =>
                \E p \in Handlers :
                    /\ pc[p] = "store" /\ pc'[p] # "store"
                    /\ req[p].filename = n]_vars

\* a committed latest version that is older, by timestamp, than another
\* indexed version: the later commit carried the earlier timestamp
C11_Witness ==
    \E p \in Handlers, n \in Names :
        /\ pc[p] = "respond"
        /\ req[p].filename = n
        /\ rdb[LatestKey(n)] = [type |-> "string", val |-> req[p].version]
        /\ rdb[VersionsKey(n)].type = "zset"
        /\ \E z \in rdb[VersionsKey(n)].members :
              /\ z.member # req[p].version
              /\ z.score > loc[p].metadata.UploadedAt

\* C12: every successful ingestion hands exactly one Update Event to the
\* Broadcast Hub after its metadata commit: an ingestion that has returned
\* 200 has handed an event over.
C12_SuccessHandsOneEvent ==
    \A p \in Handlers : (pc[p] = "done" /\ resp[p].status = 200) => sent >= 1

\* number of occurrences of x in seq
Count(seq, x) == Cardinality({i \in 1..Len(seq) : seq[i] = x})

\* C13: Broadcast never waits on a subscriber.  A Broadcast in progress can
\* always take its next step, also when queues are full; a subscriber whose
\* queue has room when its turn comes gets the event appended and no drop,
\* whatever the other queues hold; and when Broadcast returns, every
\* registered subscriber was offered the event exactly once.
C13_BroadcastNeverWaits ==
    /\ [](\A b \in Broadcasters :
            (crash = "" /\ bc[b].pc = "loop") =>
                /\ \A c \in bc[b].todo : ENABLED BroadcastSelect(b, c)
                /\ bc[b].todo = {} => ENABLED BroadcastReturn(b))
    /\ [][\A b \in Broadcasters :
            /\ \A c \in Consumers :
                 ( /\ bc[b].pc = "loop" /\ c \in bc[b].todo /\ c \notin bc'[b].todo
                   /\ Len(chans[streams[c]].buf) < QueueCap
                   /\ ~chans[streams[c]].closed )
                 => /\ chans'[streams[c]].buf =
                           Append(chans[streams[c]].buf, bc[b].update)
                    /\ drops' = drops
                    /\ bc'[b].errors = bc[b].errors
            /\ (bc[b].pc = "loop" /\ bc'[b].pc = "done") =>
                 \A c \in Registered :
                    /\ Count(offered[streams[c]], bc[b].update.id) = 1
                    /\ (bc[b].update.id \in drops[streams[c]])
                          <=> (\E i \in 1..Len(bc[b].errors) : bc[b].errors[i] = c)]_vars

\* a Broadcast about to return that dropped the event for one subscriber
\* (queue full) and enqueued it for another
C13_Witness ==
    \E b \in Broadcasters, c, d \in Consumers :
        /\ bc[b].pc = "loop" /\ bc[b].todo = {}
        /\ c \in Registered /\ d \in Registered
        /\ bc[b].update.id \in drops[streams[c]]
        /\ bc[b].update.id \notin drops[streams[d]]
        /\ Count(offered[streams[d]], bc[b].update.id) = 1

\* the smaller of two numbers
Min(a, b) == IF a < b THEN a ELSE b

\* the session that registered channel ch is streaming and has not
\* dequeued anything from it
Undrained(ch) ==
    \E s \in Sessions :
        /\ sess[s].pc = "range"
        /\ sess[s].updateChan = ch
        /\ sess[s].dequeued = <<>>

\* C14: no queue ever holds more than its capacity (QueueCap here, 100 in
\* the code).  For a subscriber that does not drain, the queue holds exactly
\* the first QueueCap events that were broadcast to it, in broadcast order
\* and without duplicates, and exactly the later ones are recorded as
\* dropped; a Broadcast that finds the queue full leaves it unchanged and
\* adds that subscriber's ID to its report.
C14_FirstCapacityEventsKept ==
    /\ [](\A ch \in Chans :
            /\ Len(chans[ch].buf) <= QueueCap
            /\ Undrained(ch) =>
                 LET n == Len(offered[ch])
                     kept == Min(QueueCap, n)
                 IN  /\ Len(chans[ch].buf) = kept
                     /\ \A i \in 1..kept : chans[ch].buf[i].id = offered[ch][i]
                     /\ \A i, j \in 1..n : offered[ch][i] = offered[ch][j] => i = j
                     /\ drops[ch] = {offered[ch][i] : i \in (kept + 1)..n})
    /\ [][\A b \in Broadcasters, c \in Consumers :
            ( /\ bc[b].pc = "loop" /\ c \in bc[b].todo /\ c \notin bc'[b].todo
              /\ Len(chans[streams[c]].buf) = QueueCap )
            => /\ chans'[streams[c]] = chans[streams[c]]
               /\ bc'[b].errors = Append(bc[b].errors, c)]_vars

\* a subscriber that does not drain was broadcast more events than its
\* queue holds: the queue is full and the last event was dropped
C14_Witness ==
    \E ch \in Chans :
        /\ Undrained(ch)
        /\ Len(offered[ch]) = QueueCap + 1
        /\ Len(chans[ch].buf) = QueueCap
        /\ drops[ch] = {offered[ch][QueueCap + 1]}

\* C15: a cancelled session does not stay blocked in its dequeue: whenever
\* a session has been cancelled and is at the range over its queue, the
\* range can proceed (so that the session ends and Unregister runs)
\* without any further broadcast.
C15_CancellationEndsSession ==
    \A s \in Sessions :
        (crash = "" /\ sess[s].cancelled /\ sess[s].pc = "range") =>
            ENABLED (Receive(s) \/ RangeEnd(s))

\* a session that has registered and not yet returned
Live(s) == sess[s].pc \in {"range", "send", "unregister"}

\* C16: Unregister runs on every exit path.  A registered session returns
\* only through its deferred Unregister, after which its subscriber ID has
\* no registry entry; and every registry entry is the queue of a session
\* that has not returned.
C16_UnregisterOnEveryExit ==
    /\ [][\A s \in Sessions :
            (Live(s) /\ sess'[s].pc = "done") =>
                /\ sess[s].pc = "unregister"
                /\ streams'[sess[s].ConsumerId] = 0]_vars
    /\ [](\A c \in Registered :
            \E s \in Sessions : Live(s) /\ sess[s].updateChan = streams[c])

\* a session that returned on a transport error, its ID no longer registered
C16_Witness ==
    \E s \in Sessions :
        /\ sess[s].pc = "done"
        /\ sess[s].err = "send"
        /\ sess[s].ConsumerId \in Consumers
        /\ streams[sess[s].ConsumerId] = 0

\* the events of seq that a session with this allow-list is to deliver
Allowed(workerNames, seq) ==
    LET Pass(e) == \/ workerNames = <<>>
                   \/ e.WorkerName \in {workerNames[i] : i \in 1..Len(workerNames)}
    IN  SelectSeq(seq, Pass)

\* seq without its last element
Front(seq) == SubSeq(seq, 1, Len(seq) - 1)

\* C17: a session delivers exactly the dequeued events that its allow-list
\* admits (all of them when the list is empty), in order: between
\* iterations the delivered events are the admitted ones among the dequeued;
\* while an admitted event is being sent, or after its Send failed, they
\* are the admitted ones before it.  A skipped event is not put back: no
\* step of a session lengthens any queue.
C17_FilterDeliversAllowedOnly ==
    /\ [](\A s \in Sessions :
            LET want == Allowed(sess[s].WorkerNames, sess[s].dequeued)
            IN  /\ (sess[s].pc = "range" \/ (sess[s].pc = "unregister" /\ sess[s].err = ""))
                      => sess[s].delivered = want
                /\ (sess[s].pc = "send" \/ (sess[s].pc = "unregister" /\ sess[s].err = "send"))
                      => /\ want # <<>>
                         /\ want[Len(want)] = sess[s].dequeued[Len(sess[s].dequeued)]
                         /\ sess[s].delivered = Front(want)
                /\ sess[s].pc = "send" => sess[s].update = want[Len(want)])
    /\ [][sess' # sess =>
            \A ch \in Chans : Len(chans'[ch].buf) <= Len(chans[ch].buf)]_vars

\* a session with allow-list <<"w1">> has dequeued an event for another
\* name and an event for w1 and has delivered only the latter
C17_Witness ==
    \E s \in Sessions :
        /\ sess[s].pc = "range"
        /\ sess[s].WorkerNames = <<"w1">>
        /\ Len(sess[s].dequeued) = 2
        /\ \E i \in 1..2 : sess[s].dequeued[i].WorkerName = "w2"
        /\ Len(sess[s].delivered) = 1
        /\ sess[s].delivered[1].WorkerName = "w1"

\* C18: a Broadcast that finds one or more queues full is not an error:
\* every Broadcast that completes is answered 200 by the ingress endpoint
\* and the sender's BroadcastUpdate returns no error.
C18_DropIsNotAnError ==
    \A b \in Broadcasters :
        bc[b].pc = "done" => (bc[b].status = 200 /\ ~bc[b].clientErr)

\* C19: register a subscriber without filter and broadcast one event: the
\* subscriber's queue gets that very event (its name and version), and the
\* subscriber holds or has been delivered exactly that one event.  Once the
\* subscriber is unregistered the count of active consumers has gone down
\* by one, and a Broadcast that finds the registry empty returns at once
\* without error, touches no queue, and the active count is 0.
C19_RegisterBroadcastUnregister ==
    /\ [](\A s \in Sessions :
            LET ch == sess[s].updateChan
            IN  ( /\ sess[s].pc = "range" /\ sess[s].WorkerNames = <<>>
                  /\ Len(offered[ch]) = 1 )
                => LET got == sess[s].delivered \o chans[ch].buf
                   IN  /\ Len(got) = 1
                       /\ got[1].id = offered[ch][1]
                       /\ sess[s].dequeued = sess[s].delivered)
    /\ [][/\ \A b \in Broadcasters, c \in Consumers :
               ( /\ bc[b].pc = "loop" /\ c \in bc[b].todo /\ c \notin bc'[b].todo
                 /\ chans[streams[c]].buf = <<>> /\ ~chans[streams[c]].closed )
               => /\ Len(chans'[streams[c]].buf) = 1
                  /\ chans'[streams[c]].buf[1].WorkerName = bc[b].update.WorkerName
                  /\ chans'[streams[c]].buf[1].Version = bc[b].update.Version
          /\ \A c \in Consumers :
               (streams[c] # 0 /\ streams'[c] = 0) =>
                  Cardinality({d \in Consumers : streams'[d] # 0})
                      = GetActiveConsumerCount - 1
          /\ \A b \in Broadcasters :
               (sent' = sent + 1 /\ bc'[b] # bc[b] /\ Registered = {}) =>
                  /\ bc'[b].pc = "done"
                  /\ ~bc'[b].err /\ bc'[b].status = 200 /\ ~bc'[b].clientErr
                  /\ chans' = chans /\ offered' = offered
                  /\ GetActiveConsumerCount = 0]_vars

\* the scenario has run: one session without filter was delivered exactly
\* one event and ended after its subscriber was unregistered, and a second
\* Broadcast has returned success on the empty registry
C19_Witness ==
    \E s \in Sessions, b \in Broadcasters :
        /\ sess[s].pc = "done" /\ sess[s].err = ""
        /\ Len(sess[s].delivered) = 1
        /\ sess[s].delivered[1].id = 1
        /\ Registered = {}
        /\ GetActiveConsumerCount = 0
        /\ sent = 2
        /\ bc[b].pc = "done" /\ bc[b].status = 200
        /\ \A ch \in Chans : chans[ch].buf = <<>>

\* C20: Register(id) installs a fresh empty open queue for id, one that no
\* earlier Register made, and changes no other entry and no existing queue:
\* the queue it replaces is not closed.  Broadcast offers events only to
\* queues that are registered, so a replaced queue gets nothing more; a
\* closed queue is never in the registry, and no queue is registered under
\* two IDs.
C20_RegisterInstallsFreshQueue ==
    /\ [][/\ made' # made =>
               \E c \in Consumers :
                  /\ made' = made + 1
                  /\ streams' = [streams EXCEPT ![c] = made + 1]
                  /\ \A d \in Consumers : streams[d] <= made
                  /\ chans'[made + 1] = [buf |-> <<>>, closed |-> FALSE]
                  /\ offered'[made + 1] = <<>>
                  /\ chans' = chans
          /\ \A ch \in Chans :
               (offered'[ch] # offered[ch] \/ Len(chans'[ch].buf) > Len(chans[ch].buf))
                  => \E c \in Consumers : streams[c] = ch /\ streams'[c] = ch]_vars
    /\ [](\A c, d \in Consumers :
            /\ streams[c] # 0 => ~chans[streams[c]].closed
            /\ (streams[c] # 0 /\ streams[c] = streams[d]) => c = d)

\* two sessions registered the same ID: the registry holds the second
\* queue, the first queue is still open, and a broadcast made since then
\* reached the second queue only
C20_Witness ==
    \E s, t \in Sessions :
        /\ s # t
        /\ Live(s) /\ Live(t)
        /\ sess[s].ConsumerId = sess[t].ConsumerId
        /\ sess[s].updateChan < sess[t].updateChan
        /\ streams[sess[t].ConsumerId] = sess[t].updateChan
        /\ ~chans[sess[s].updateChan].closed
        /\ offered[sess[s].updateChan] = <<>>
        /\ offered[sess[t].updateChan] # <<>>

\* what one Unregister(c) leaves: c without entry, every other entry as it
\* was, the queue c had (if any) closed, and nothing at all changed when c
\* had no entry
UnregisterEffect(c) ==
    /\ streams' = [streams EXCEPT ![c] = 0]
    /\ IF streams[c] = 0
       THEN chans' = chans /\ crash' = crash
       ELSE chans' = [chans EXCEPT ![streams[c]].closed = TRUE]

\* C21: Unregister is idempotent.  Every Unregister(c), the deferred one of
\* a session or a call by another owner, leaves c without entry and changes
\* neither the registry nor any queue when c has no entry, raising no
\* panic; so a second Unregister(c) changes nothing and two in a row leave
\* what one leaves.  No queue is closed twice and a closed queue stays
\* closed.
C21_UnregisterIdempotent ==
    /\ [][/\ \A s \in Sessions :
               (sess[s].pc = "unregister" /\ sess'[s].pc = "done") =>
                   UnregisterEffect(sess[s].ConsumerId)
          /\ (disturb' # disturb /\ sess' = sess) =>
                   \E c \in Consumers : UnregisterEffect(c)
          /\ \A ch \in Chans : chans[ch].closed => chans'[ch].closed]_vars
    /\ [](crash # "close of closed channel" /\ crash # "close of nil channel")

\* the only channel ever made was closed by an Unregister of its ID by
\* another owner, and its session ended through its own deferred
\* Unregister of the already unregistered ID
C21_Witness ==
    \E s \in Sessions :
        /\ made = 1
        /\ chans[1].closed
        /\ disturb = 1
        /\ sess[s].pc = "done" /\ sess[s].err = "" /\ sess[s].ConsumerId \in Consumers
        /\ Registered = {}
        /\ crash = ""

\* the events in seq, as a set of IDs
Ids(seq) == {seq[i].id : i \in 1..Len(seq)}

\* C22: at-most-once delivery, no replay.  No session is delivered an event
\* twice; every event a session holds, dequeued or still queued, was
\* offered to its queue exactly once; and a queue is offered an event only
\* by a Broadcast that found it registered when it started, so a queue
\* registered later (a new or re-registered subscriber) starts empty and
\* never gets an event broadcast before.
C22_AtMostOnceNoReplay ==
    /\ [](\A s \in Sessions :
            /\ \A i, j \in 1..Len(sess[s].delivered) :
                  sess[s].delivered[i].id = sess[s].delivered[j].id => i = j
            /\ Live(s) =>
                 LET ch == sess[s].updateChan
                     held == sess[s].dequeued \o chans[ch].buf
                 IN  /\ \A i, j \in 1..Len(held) : held[i].id = held[j].id => i = j
                     /\ \A e \in Ids(held) : Count(offered[ch], e) = 1
                     /\ Ids(sess[s].delivered) \subseteq Ids(sess[s].dequeued))
    /\ [][/\ made' # made =>
               /\ chans'[made'].buf = <<>>
               /\ offered'[made'] = <<>>
               /\ \A b \in Broadcasters : bc[b].pc # "loop"
          /\ \A ch \in Chans :
               offered'[ch] # offered[ch] =>
                  \E b \in Broadcasters, c \in Consumers :
                     /\ bc[b].pc = "loop" /\ c \in bc[b].todo /\ streams[c] = ch
                     /\ offered'[ch] = Append(offered[ch], bc[b].update.id)
                     /\ bc[b].update.id = sent]_vars

\* event 1 was broadcast to the first queue; a session whose queue was
\* registered after that has been delivered event 2 and nothing else
C22_Witness ==
    \E s \in Sessions :
        /\ Live(s)
        /\ sess[s].updateChan = 2
        /\ offered[1] # <<>> /\ offered[1][1] = 1
        /\ offered[2] = <<2>>
        /\ Ids(sess[s].delivered) = {2}

\* C23: a request whose name or version is empty is answered 400 before the
\* lock step: its handler is never past the parse (it is idle or has
\* answered 400), and the step that takes a request changes neither the
\* metadata store (so no lock is taken) nor the blob storage.
C23_EmptyNameOrVersionRejected ==
    /\ [](\A p \in Handlers :
            (req[p].filename = "" \/ req[p].version = "") =>
                \/ pc[p] = "idle"
                \/ pc[p] = "done" /\ resp[p].status = 400)
    /\ [][uploads' # uploads => rdb' = rdb /\ files' = files]_vars

\* a request with a name and an empty version has been answered 400
C23_Witness ==
    \E p \in Handlers :
        /\ pc[p] = "done"
        /\ req[p].filename # "" /\ req[p].version = ""
        /\ resp[p].status = 400

\* C24: at the lock step, a lock key that is present gives 409 Conflict and
\* a lock-store error gives 500 Unavailable ("Failed to acquire lock"): two
\* distinct statuses.  Either way the handler is done, the store and the
\* blob storage are as they were and no blob is written for the request.
C24_ConflictVersusUnavailable ==
    [][\A p \in Handlers :
          (pc[p] = "acquire" /\ pc'[p] # "acquire") =>
             LET k == LockKey(req[p].filename, req[p].version)
             IN  /\ files' = files
                 /\ IF faults' # faults
                    THEN /\ pc'[p] = "done" /\ rdb' = rdb
                         /\ resp'[p].status = 500
                         /\ resp'[p].message = "Failed to acquire lock"
                    ELSE IF rdb[k].type # "none"
                    THEN /\ pc'[p] = "done" /\ rdb' = rdb
                         /\ resp'[p].status = 409
                    ELSE pc'[p] = "process" /\ rdb'[k].type # "none"]_vars

\* a request was answered 409 while another handler holds the lock of the
\* same name and version
C24_Witness ==
    \E p, q \in Handlers :
        /\ p # q /\ InFlight(p) /\ SameKey(p, q)
        /\ pc[q] = "done" /\ resp[q].status = 409
        /\ rdb[LockKey(req[q].filename, req[q].version)].type # "none"

FailureKinds == {"InvalidInput", "Conflict", "Unavailable", "StorageError",
                 "VerificationError", "MetadataError"}

\* what the caller sees of a failure of each kind: status and message
Outcome(kind) ==
    CASE kind = "InvalidInput" -> <<400, "filename and version are required">>
      [] kind = "Conflict" -> <<409, "Upload already in progress for this file and version">>
      [] kind = "Unavailable" -> <<500, "Failed to acquire lock">>
      [] kind = "StorageError" -> <<500, "Failed to process file">>
      [] kind = "VerificationError" -> <<500, "File verification failed">>
      [] kind = "MetadataError" -> <<500, "Failed to store metadata">>

\* the kind of the failure a handler at this position reports in this step
KindOfStep(p) ==
    CASE pc[p] \in {"idle", "done"} -> "InvalidInput"
      [] pc[p] = "acquire" -> IF faults' # faults THEN "Unavailable" ELSE "Conflict"
      [] pc[p] = "process" -> "StorageError"
      [] pc[p] = "verifyDelete" -> "VerificationError"
      [] OTHER -> "MetadataError"

Failed(p) == resp[p].status \notin {0, 200}

\* C25, as stated: the response status tells the failure kinds apart; two
\* failure responses with the same status report the same cause.
C25_StatusTellsTheKind ==
    \A p, q \in Handlers :
        (Failed(p) /\ Failed(q) /\ resp[p].status = resp[q].status) =>
            resp[p].message = resp[q].message

\* C25, amended: the six failure kinds are pairwise distinguishable by the
\* caller through the response status together with the error message.
\* Every failure response is the status and message of the kind of the step
\* that failed, and no two kinds have the same status and message; the
\* status alone tells InvalidInput (400) and Conflict (409) from the rest,
\* and the other four kinds share 500.
C25_StatusAndMessageTellTheKind ==
    /\ [][\A p \in Handlers :
            (resp'[p] # resp[p] /\ resp'[p].status \notin {0, 200}) =>
                <<resp'[p].status, resp'[p].message>> = Outcome(KindOfStep(p))]_vars
    /\ [](\A k1, k2 \in FailureKinds : k1 # k2 => Outcome(k1) # Outcome(k2))
    /\ [](\A p \in Handlers :
            Failed(p) => \E k \in FailureKinds :
                            <<resp[p].status, resp[p].message>> = Outcome(k))

\* two requests failed for different causes with the same status 500
C25_Witness ==
    \E p, q \in Handlers :
        /\ resp[p].status = 500 /\ resp[q].status = 500
        /\ resp[p].message = "Failed to acquire lock"
        /\ resp[q].message = "File verification failed"

StorageErrorReported(p) ==
    pc[p] \in {"release", "done"} /\ resp[p].message = "Failed to process file"

\* the abort on a failed blob write: 500 "Failed to process file", the
\* checksum dropped, the store untouched by the step, and neither the
\* verification nor the commit run afterwards (no metadata was built)
C26_WriteFailureSkipsTheRest ==
    /\ [][\A p \in Handlers :
            (pc[p] = "process" /\ pc'[p] # "process" /\ loc[p].writeErr) =>
                /\ pc'[p] = "release"
                /\ resp'[p].status = 500 /\ resp'[p].message = "Failed to process file"
                /\ loc'[p].checksum = <<>>
                /\ rdb' = rdb]_vars
    /\ [][\A p \in Handlers :
            (StorageErrorReported(p) /\ pc[p] = "release" /\ pc'[p] # "release") =>
                /\ pc'[p] = "done"
                /\ loc'[p].checksum = <<>> /\ loc'[p].metadata = <<>>
                /\ files' = files
                /\ \A k \in Keys \ LockKeys : rdb'[k] = rdb[k]]_vars
    /\ [](\A p \in Handlers :
            StorageErrorReported(p) => loc[p].checksum = <<>> /\ loc[p].metadata = <<>>)

\* C26: a failed blob write aborts the ingestion with StorageError: the
\* checksum is discarded, verification and commit are never executed, no
\* metadata of the ingestion becomes visible, and once the handler has
\* returned its lock is released (the lock key is absent unless a later
\* ingestion of the same name and version holds it).
C26_WriteFailureAbortsAndReleases ==
    /\ C26_WriteFailureSkipsTheRest
    /\ [](\A p \in Handlers :
            (StorageErrorReported(p) /\ pc[p] = "done"
               /\ \A q \in Handlers : ~(InFlight(q) /\ SameKey(p, q))) =>
                rdb[LockKey(req[p].filename, req[p].version)].type = "none")

\* the position of x in seq (0 when absent)
Pos(seq, x) ==
    IF \E i \in 1..Len(seq) : seq[i] = x
    THEN CHOOSE i \in 1..Len(seq) : seq[i] = x
    ELSE 0

ScoreOf(db, n, v) ==
    (CHOOSE z \in db[VersionsKey(n)].members : z.member = v).score

\* C27: GetAllVersions returns every committed version once, newest first
\* by upload timestamp, versions of equal timestamp by arrival: the version
\* whose commit has just completed is listed before every version
\* committed earlier with the same timestamp.
C27_NewestFirstTiesByArrival ==
    /\ [](\A n \in Names :
            LET all == GetAllVersions(rdb, n).versions
            IN  /\ \A i, j \in 1..Len(all) : all[i] = all[j] => i = j
                /\ \A i, j \in 1..Len(all) :
                      i < j => ScoreOf(rdb, n, all[i]) >= ScoreOf(rdb, n, all[j]))
    /\ [][\A p \in Handlers :
            (pc[p] = "store" /\ pc'[p] = "respond") =>
                LET n == req[p].filename
                    v == req[p].version
                    all == GetAllVersions(rdb', n).versions
                IN  /\ Pos(all, v) > 0
                    /\ \A u \in Range(all) \ {v} :
                          ScoreOf(rdb', n, u) = ScoreOf(rdb', n, v) =>
                              Pos(all, v) < Pos(all, u)]_vars

\* the other reading of the tie rule: among equal timestamps the version
\* committed earlier is listed first
C27_TiesEarlierArrivalFirst ==
    [][\A p \in Handlers :
          (pc[p] = "store" /\ pc'[p] = "respond") =>
              LET n == req[p].filename
                  v == req[p].version
                  all == GetAllVersions(rdb', n).versions
              IN  \A u \in Range(all) \ {v} :
                     ScoreOf(rdb', n, u) = ScoreOf(rdb', n, v) =>
                         Pos(all, u) < Pos(all, v)]_vars

Indexed(db, n) == Range(GetAllVersions(db, n).versions)

\* C28: the version index is append-only.  No step removes a version from
\* GetAllVersions of a name, nor makes the record of a version unreadable,
\* whatever the outcome of the ingestion taking the step.
C28_IndexAppendOnly ==
    [][\A n \in Names, v \in Versions :
          /\ v \in Indexed(rdb, n) => v \in Indexed(rdb', n)
          /\ GetFileMetadata(rdb, n, v).err = "" =>
                 GetFileMetadata(rdb', n, v).err = ""]_vars

\* a version is indexed with a readable record although a later ingestion
\* of it has failed and returned
C28_Witness ==
    \E p \in Handlers :
        /\ pc[p] = "done" /\ Failed(p) /\ resp[p].status = 500
        /\ req[p].version \in Indexed(rdb, req[p].filename)
        /\ GetFileMetadata(rdb, req[p].filename, req[p].version).err = ""

\* C29: a lock whose holder has stopped does not block its key forever.
\* The lock key is always stored with the 30 s TTL, so its expiry is
\* possible in every state in which the key is present, whatever its
\* holder does; and a handler at the lock step whose key is absent can
\* acquire it and go on.
C29_CrashedLockExpires ==
    /\ \A k \in LockKeys :
          rdb[k].type # "none" => rdb[k].ttl = LockTTL /\ ENABLED LockExpire(k)
    /\ \A q \in Handlers :
          (pc[q] = "acquire" /\ rdb[LockKey(req[q].filename, req[q].version)].type = "none")
              => ENABLED (AcquireUploadLock(q) /\ pc'[q] = "process")

\* a handler stopped right after acquiring the lock; the key has expired
\* and a later ingestion of the same name and version has succeeded
C29_Witness ==
    \E p, q \in Handlers :
        /\ p # q /\ SameKey(p, q)
        /\ pc[p] = "process" /\ ~loc[p].sumDone /\ ~loc[p].writeDone
        /\ pc[q] = "done" /\ resp[q].status = 200
        /\ rdb[LockKey(req[p].filename, req[p].version)].type = "none"

\* C30: a subscribe request with an empty subscriber ID is rejected with
\* InvalidArgument before any registration: the step leaves the registry
\* and the queues as they were, makes no queue and starts no liveness
\* ticker, and the session has returned.
C30_EmptyIdRejected ==
    /\ [][\A s \in Sessions :
            ( /\ sess[s].pc \in {"idle", "done"} /\ ~sess[s].ticker
              /\ sess'[s] # sess[s]
              /\ sess'[s].ConsumerId = "" ) =>
                /\ sess'[s].pc = "done"
                /\ sess'[s].err = "InvalidArgument"
                /\ ~sess'[s].ticker
                /\ streams' = streams /\ chans' = chans /\ made' = made]_vars
    /\ [](\A s \in Sessions :
            /\ sess[s].ConsumerId = "" =>
                  sess[s].pc \in {"idle", "done"} /\ ~sess[s].ticker /\ sess[s].updateChan = 0
            /\ sess[s].err = "InvalidArgument" => sess[s].ConsumerId = "")

\* a request with an empty ID has been rejected while a subscriber is
\* registered
C30_Witness ==
    \E s \in Sessions :
        /\ sess[s].pc = "done" /\ sess[s].err = "InvalidArgument"
        /\ Registered # {}
        /\ made = 1

\* the handler's own step with which its ingestion ends in a failure
\* after the lock step: write, verification or commit failure
FailureStep(p) ==
    /\ pc[p] \in {"process", "verifyDelete", "rollback"}
    /\ pc'[p] = "release"

\* C31: a failed re-ingestion of a committed (name, version) leaves the
\* committed blob and record intact: if a record of the key is readable
\* when the ingestion fails, the blob at the record's path still exists
\* after the failure step and still has the record's checksum.  Stated for
\* a handler working alone (no other request was ever taken), so that the
\* record is the one an earlier ingestion of this handler committed.
C31_FailedReingestionKeepsCommitted ==
    [][\A p \in Handlers :
          LET m == GetFileMetadata(rdb, req[p].filename, req[p].version)
          IN  ( /\ FailureStep(p) /\ m.err = ""
                /\ \A q \in Handlers \ {p} : pc[q] = "idle" ) =>
                 /\ GetFileMetadata(rdb', req[p].filename, req[p].version) = m
                 /\ files'[m.metadata.FilePath].exists
                 /\ Checksum(files'[m.metadata.FilePath].data) = m.metadata.Checksum]_vars

\* C32: the deferred ReleaseLock of an ingestion removes only the lock this
\* ingestion acquired: when the lock key in the store was written by
\* another in-flight ingestion of the same name and version (this one's
\* own lock having expired), the release leaves that key in place.
C32_ReleaseRemovesOwnLockOnly ==
    [][\A p, q \in Handlers :
          ( /\ pc[p] = "release" /\ pc'[p] = "done"
            /\ q # p /\ SameKey(p, q) /\ InFlight(q) /\ loc[q].held ) =>
              rdb'[LockKey(req[q].filename, req[q].version)].type # "none"]_vars

\* C33: the Unregister of a terminating session removes only the
\* registration this session created: when another live session has
\* re-registered the same ID, so that the registry holds that session's
\* queue, the exit of the first leaves the entry in place and the queue
\* open.
C33_UnregisterRemovesOwnRegistrationOnly ==
    [][\A s, t \in Sessions :
          ( /\ sess[s].pc = "unregister" /\ sess'[s].pc = "done"
            /\ t # s /\ Live(t)
            /\ sess[t].ConsumerId = sess[s].ConsumerId
            /\ sess[t].updateChan # sess[s].updateChan
            /\ streams[sess[t].ConsumerId] = sess[t].updateChan ) =>
              /\ streams'[sess[t].ConsumerId] = sess[t].updateChan
              /\ ~chans'[sess[t].updateChan].closed]_vars

\* C34: in every interleaving of Register, Unregister and Broadcast no
\* send-on-closed and no double close happens (no panic at all), Broadcast
\* enqueues onto open queues only and has only registered, open queues
\* ahead of it; the registry changes only while no Broadcast is in its
\* loop; and no call is stuck: a Broadcast in its loop can always take its
\* next step, and a pending Unregister can run as soon as no Broadcast
\* holds the read lock.
C34_NoPanicNoDeadlock ==
    /\ [](crash = "")
    /\ [][/\ streams' # streams =>
                \A b \in Broadcasters : bc[b].pc # "loop" /\ bc'[b] = bc[b]
          /\ \A ch \in Chans :
                /\ Len(chans'[ch].buf) > Len(chans[ch].buf) =>
                      ~chans[ch].closed /\ ~chans'[ch].closed
                /\ chans[ch].closed => chans'[ch].closed]_vars
    /\ [](\A b \in Broadcasters :
            bc[b].pc = "loop" =>
               /\ \A c \in bc[b].todo : streams[c] # 0 /\ ~chans[streams[c]].closed
               /\ IF bc[b].todo = {}
                  THEN ENABLED BroadcastReturn(b)
                  ELSE \A c \in bc[b].todo : ENABLED BroadcastSelect(b, c))
    /\ [](\A s \in Sessions :
            (sess[s].pc = "unregister" /\ WriteLockFree) => ENABLED DeferredUnregister(s))

\* a Broadcast is in its loop with a queue still ahead of it while a
\* session whose queue was closed waits to run its Unregister
C34_Witness ==
    \E b \in Broadcasters, s \in Sessions :
        /\ bc[b].pc = "loop" /\ bc[b].todo # {}
        /\ sess[s].pc = "unregister"
        /\ chans[sess[s].updateChan].closed
        /\ crash = ""

\* the request of p was refused at the lock step (Conflict or Unavailable)
LockRefused(p) ==
    /\ resp[p].status \in {409, 500}
    /\ resp[p].message \in {"Upload already in progress for this file and version",
                            "Failed to acquire lock"}

\* C35: an ingestion that fails to acquire the lock changes nothing.  Its
\* lock step leaves the metadata store (the lock key included), the blob
\* storage and every handler's hold on its lock as they were, and it has
\* returned: it runs no write, no commit and no ReleaseLock, so no later
\* step of it can touch the store either.
C35_FailedAcquireChangesNothing ==
    /\ [][\A p \in Handlers :
            (pc[p] = "acquire" /\ pc'[p] # "acquire" /\ pc'[p] # "process") =>
                /\ pc'[p] = "done"
                /\ rdb' = rdb /\ files' = files /\ loc' = loc]_vars
    /\ [](\A p \in Handlers :
            LockRefused(p) => pc[p] = "done" /\ loc[p] = NoLoc)
    /\ [][\A p \in Handlers :
            (LockRefused(p) /\ pc'[p] # pc[p]) => rdb' = rdb /\ files' = files]_vars

\* a request was refused with 409 and has returned; the holder of the lock
\* still holds it and goes on
C35_Witness ==
    \E p, q \in Handlers :
        /\ p # q /\ SameKey(p, q)
        /\ pc[q] = "done" /\ resp[q].status = 409
        /\ pc[p] \in {"verify", "build", "store"} /\ loc[p].held

\* the IDs of the events Broadcast put into queue ch, in order
Enqueued(ch) == SelectSeq(offered[ch], LAMBDA e : e \notin drops[ch])

\* C36: when Unregister closes the queue of a streaming session, the range
\* loop still receives every event buffered in it and delivers those its
\* filter admits, then ends without error; nothing is enqueued onto the
\* closed queue.  A session that left the loop without error has dequeued
\* everything that was ever enqueued and delivered the admitted part.
C36_EvictionDrainsTheQueue ==
    /\ [][\A ch \in Chans :
            chans[ch].closed =>
               /\ chans'[ch].closed
               /\ offered'[ch] = offered[ch]
               /\ Len(chans'[ch].buf) <= Len(chans[ch].buf)]_vars
    /\ [](\A s \in Sessions :
            (sess[s].pc = "range" /\ chans[sess[s].updateChan].closed) =>
               IF chans[sess[s].updateChan].buf # <<>>
               THEN ENABLED Receive(s) /\ ~ENABLED RangeEnd(s)
               ELSE ENABLED RangeEnd(s))
    /\ [][\A s \in Sessions :
            (sess[s].pc = "range" /\ sess'[s].pc = "unregister") =>
               /\ sess'[s].err = ""
               /\ chans[sess[s].updateChan].closed
               /\ chans[sess[s].updateChan].buf = <<>>]_vars
    /\ [](\A s \in Sessions :
            (sess[s].pc = "unregister" /\ sess[s].err = "") =>
               /\ [i \in 1..Len(sess[s].dequeued) |-> sess[s].dequeued[i].id]
                     = Enqueued(sess[s].updateChan)
               /\ sess[s].delivered = Allowed(sess[s].WorkerNames, sess[s].dequeued))

\* a session is delivering an event it received from its queue after
\* Unregister had closed the queue, with another event still buffered
C36_Witness ==
    \E s \in Sessions :
        /\ sess[s].pc = "send"
        /\ chans[sess[s].updateChan].closed
        /\ chans[sess[s].updateChan].buf # <<>>
        /\ sess[s].dequeued = <<sess[s].update>>
        /\ Len(offered[sess[s].updateChan]) = 2

\* the IDs of the events in seq, in order
IdSeq(seq) == [i \in 1..Len(seq) |-> seq[i].id]

\* C37: per-subscriber FIFO.  What a session has dequeued, followed by what
\* its queue still holds, is what Broadcast enqueued, in the order of
\* enqueueing; Broadcasts that do not overlap enqueue in the order in which
\* they ran (event IDs count the Broadcasts), so the events in a queue, the
\* events dequeued and the events delivered are each in that order.
C37_PerSubscriberFifo ==
    \A s \in Sessions :
        /\ Live(s) =>
              /\ IdSeq(sess[s].dequeued \o chans[sess[s].updateChan].buf)
                    = Enqueued(sess[s].updateChan)
              /\ \A i, j \in 1..Len(Enqueued(sess[s].updateChan)) :
                    i < j => Enqueued(sess[s].updateChan)[i] < Enqueued(sess[s].updateChan)[j]
        /\ \A i, j \in 1..Len(sess[s].delivered) :
              i < j => sess[s].delivered[i].id < sess[s].delivered[j].id

\* a session has been delivered two events, the earlier broadcast first,
\* and both were in its queue together
C37_Witness ==
    \E s \in Sessions :
        /\ Len(sess[s].delivered) = 2
        /\ sess[s].delivered[1].id < sess[s].delivered[2].id
        /\ Live(s)
        /\ sess[s].delivered = sess[s].dequeued
        /\ chans[sess[s].updateChan].buf # <<>>

\* C38: within one ingestion the checksum and the blob write run in either
\* order: each can run whether or not the other has; neither touches what
\* the other produces, so both orders lead to the same state; the results
\* at the join are a function of the request and of the outcome of the
\* write; and the handler goes on (to verification, or to the failure
\* answer) only when both have finished.
C38_ChecksumAndWriteJoin ==
    /\ [](\A p \in Handlers :
            /\ (pc[p] = "process" /\ ~loc[p].sumDone) => ENABLED ChecksumGoroutine(p)
            /\ (pc[p] = "process" /\ ~loc[p].writeDone) => ENABLED WriteGoroutine(p)
            /\ pc[p] \in Critical \ {"process"} => loc[p].sumDone /\ loc[p].writeDone
            /\ (pc[p] = "process" /\ loc[p].sumDone) =>
                  loc[p].checksum = Checksum(req[p].fileData)
            /\ (pc[p] = "process" /\ loc[p].writeDone /\ ~loc[p].writeErr) =>
                  loc[p].filePath = GetPath(req[p].filename, req[p].version)
            /\ pc[p] = "verify" =>
                  /\ loc[p].checksum = Checksum(req[p].fileData)
                  /\ loc[p].filePath = GetPath(req[p].filename, req[p].version))
    /\ [][\A p \in Handlers :
            /\ (pc[p] = "process" /\ loc'[p].sumDone # loc[p].sumDone) =>
                  /\ files' = files /\ rdb' = rdb
                  /\ loc'[p] = [loc[p] EXCEPT !.sumDone = TRUE,
                                              !.checksum = Checksum(req[p].fileData)]
            /\ (pc[p] = "process" /\ loc'[p].writeDone # loc[p].writeDone) =>
                  /\ loc'[p].checksum = loc[p].checksum
                  /\ loc'[p].sumDone = loc[p].sumDone
                  /\ rdb' = rdb]_vars

\* two ingestions are in the parallel step, one with the write done and
\* the checksum pending, the other with the checksum done and the write
\* pending
C38_Witness ==
    \E p, q \in Handlers :
        /\ pc[p] = "process" /\ pc[q] = "process"
        /\ loc[p].writeDone /\ ~loc[p].sumDone
        /\ loc[q].sumDone /\ ~loc[q].writeDone

\* name, version, checksum, size, storage path and payload bytes of the
\* update handed to Broadcast are those of the submitted event
C39_FieldsButTimestampPreserved ==
    (wire.pc = "done" /\ wire.status = 200) =>
        /\ wire.update.WorkerName = wire.event.Filename
        /\ wire.update.Version = wire.event.Version
        /\ wire.update.Checksum = wire.event.Checksum
        /\ wire.update.Size = wire.event.Size
        /\ wire.update.FilePath = wire.event.FilePath
        /\ wire.update.WorkerCode = wire.fileData

\* C39: the update that the hub broadcasts after BroadcastUpdate and
\* /internal/broadcast has the artifact name, version, checksum, size,
\* storage path, payload bytes and timestamp of the committed event that
\* was submitted, and every submitted event is accepted.
C39_EventPreserved ==
    wire.pc = "done" =>
        /\ wire.status = 200
        /\ C39_FieldsButTimestampPreserved
        /\ wire.update.Timestamp = wire.event.UploadedAt

\* C40: the liveness ticker of a session runs beside the delivery loop: it
\* is running in every position of a session that is not cancelled; it can
\* stop as soon as the session is cancelled or has returned, and stops for
\* no other reason; its tick and its end change nothing of the session, of
\* the registry or of the queues, so it never terminates the session; and
\* a handler takes a new subscription only when the ticker of the previous
\* one has stopped.
C40_TickerTiedToSession ==
    /\ [](\A s \in Sessions :
            /\ sess[s].ticker => sess[s].ConsumerId \in Consumers /\ sess[s].pc # "idle"
            /\ (Live(s) /\ ~sess[s].cancelled) => sess[s].ticker
            /\ (sess[s].ticker /\ (sess[s].cancelled \/ sess[s].pc = "done"))
                  => ENABLED TickerExit(s))
    /\ [][\A s \in Sessions :
            (sess[s].ticker /\ ~sess'[s].ticker) =>
                /\ sess[s].cancelled \/ sess[s].pc = "done"
                /\ sess' = [sess EXCEPT ![s].ticker = FALSE]
                /\ streams' = streams /\ chans' = chans /\ crash' = crash]_vars

\* the ticker of a cancelled session has stopped while the session is
\* still in its range loop
C40_Witness ==
    \E s \in Sessions :
        /\ sess[s].pc = "range"
        /\ sess[s].cancelled
        /\ ~sess[s].ticker

====
